---- MODULE Spec2Model ----
(***************************************************************************)
(* Block-STM parallel executor (parallel-executor crate).                  *)
(*                                                                         *)
(* VersionedData (versioned_data.rs), CapturedReads (captured_reads.rs),   *)
(* TxnLastInputOutput (txn_last_input_output.rs) and the read path of      *)
(* ParallelState (ext.rs) are modelled from their source.  The Scheduler   *)
(* (crate::scheduler) and the worker loop are modelled from the design     *)
(* document, sections 3, 4.4 and 5.                                        *)
(***************************************************************************)
EXTENDS Integers, Sequences, FiniteSets, TLC

\* ------------------------------------------------------------------------
\* Bounds
\* ------------------------------------------------------------------------
NumKeys == 2
NumTxns == 2
MaxInc == 1
MaxByte == 1
MaxLen == 1
MaxOps == 4
BlockSize == 3
NumWorkers == 2

Keys == 1..NumKeys
TxnIdx == 0..(NumTxns - 1)
Incarnations == 0..MaxInc
Txns == 0..(BlockSize - 1)
Workers == 1..NumWorkers
\* StorageValue = Vec<u8>: byte strings of bounded length
StorageValues == UNION {[1..n -> 0..MaxByte] : n \in 0..MaxLen}

\* ------------------------------------------------------------------------
\* types.rs
\* ------------------------------------------------------------------------
\* ShiftedTxnIndex: TxnIndex + 1, 0 reserved for the base (storage) slot
ShiftedZero == 0
ShiftedNew(txn_idx) == txn_idx + 1

\* Version = Result<(TxnIndex, Incarnation), StorageVersion>
StorageVersion == [base |-> TRUE, idx |-> 0, inc |-> 0]
TxnVersion(i, n) == [base |-> FALSE, idx |-> i, inc |-> n]
Versions == {StorageVersion} \cup {TxnVersion(i, n) : i \in TxnIdx, n \in Incarnations}

\* ShiftedTxnIndex::idx() followed by .map(|idx| (idx, incarnation))
ShiftedVersion(sh, inc) == IF sh = ShiftedZero THEN StorageVersion ELSE TxnVersion(sh - 1, inc)

\* MVDataOutput::Versioned / MVDataError::{Dependency, Uninitialized}; Panic is
\* the expect() of read() on an Estimate in the storage slot
Versioned(version, v) == [tag |-> "Versioned", version |-> version, value |-> v, dep |-> 0]
Dependency(d) == [tag |-> "Dependency", version |-> StorageVersion, value |-> <<>>, dep |-> d]
Uninitialized == [tag |-> "Uninitialized", version |-> StorageVersion, value |-> <<>>, dep |-> 0]
ReadPanic == [tag |-> "Panic", version |-> StorageVersion, value |-> <<>>, dep |-> 0]

\* ------------------------------------------------------------------------
\* versioned_data.rs
\* ------------------------------------------------------------------------
\* partial maps (BTreeMap / DashMap / HashMap) are functions on the present keys
EmptyMap == <<>>
MapInsert(m, k, x) == [j \in (DOMAIN m) \cup {k} |-> IF j = k THEN x ELSE m[j]]
MapRemove(m, k) == [j \in (DOMAIN m) \ {k} |-> m[j]]
SetMax(S) == CHOOSE x \in S : \A y \in S : y <= x

new_write_from(incarnation, data) == [inc |-> incarnation, val |-> data, flag |-> "Done"]

\* read with the transaction's own slot inside the range
read_own_slot(versioned_map, txn_idx) ==
  LET range == {sh \in DOMAIN versioned_map : ShiftedZero <= sh /\ sh <= ShiftedNew(txn_idx)}
  IN IF range = {} THEN Uninitialized
     ELSE LET idx == SetMax(range)
              entry == versioned_map[idx]
          IN IF entry.flag = "Estimate"
             THEN (IF idx = ShiftedZero THEN ReadPanic ELSE Dependency(idx - 1))
             ELSE Versioned(ShiftedVersion(idx, entry.inc), entry.val)

\* read that steps over Estimate entries to the next lower Done entry
read_skip_estimate(versioned_map, txn_idx) ==
  LET range == {sh \in DOMAIN versioned_map :
                  /\ ShiftedZero <= sh /\ sh < ShiftedNew(txn_idx)
                  /\ versioned_map[sh].flag = "Done"}
  IN IF range = {} THEN Uninitialized
     ELSE LET idx == SetMax(range)
              entry == versioned_map[idx]
          IN Versioned(ShiftedVersion(idx, entry.inc), entry.val)

\* read whose range starts above the storage slot
read_no_base(versioned_map, txn_idx) ==
  LET range == {sh \in DOMAIN versioned_map : ShiftedZero < sh /\ sh < ShiftedNew(txn_idx)}
  IN IF range = {} THEN Uninitialized
     ELSE LET idx == SetMax(range)
              entry == versioned_map[idx]
          IN IF entry.flag = "Estimate"
             THEN Dependency(idx - 1)
             ELSE Versioned(ShiftedVersion(idx, entry.inc), entry.val)

\* VersionedValue::read: the last entry of range(zero .. new(txn_idx)) decides
read(versioned_map, txn_idx) ==
  LET range == {sh \in DOMAIN versioned_map : ShiftedZero <= sh /\ sh < ShiftedNew(txn_idx)}
  IN IF range = {} THEN Uninitialized
     ELSE LET idx == SetMax(range)
              entry == versioned_map[idx]
          IN IF entry.flag = "Estimate"
             THEN (IF idx = ShiftedZero THEN ReadPanic ELSE Dependency(idx - 1))
             ELSE Versioned(ShiftedVersion(idx, entry.inc), entry.val)

\* VersionedData::fetch_data
fetch_data(vals, key, txn_idx) ==
  IF key \in DOMAIN vals THEN read(vals[key], txn_idx) ELSE Uninitialized

\* values.entry(key).or_default()
or_default(vals, key) == IF key \in DOMAIN vals THEN vals[key] ELSE EmptyMap

\* write whose assert accepts an equal incarnation
write_accept_equal(vals, key, txn_idx, incarnation, data) ==
  LET v == IF key \in DOMAIN vals THEN vals[key] ELSE <<>>
      sh == ShiftedNew(txn_idx)
  IN [vals |-> MapInsert(vals, key, MapInsert(v, sh, new_write_from(incarnation, data))),
      ok |-> (sh \in DOMAIN v) => (v[sh].inc <= incarnation)]

\* VersionedData::write: the insert happens before the assert on the previous entry
write(vals, key, txn_idx, incarnation, data) ==
  LET v == or_default(vals, key)
      sh == ShiftedNew(txn_idx)
  IN [vals |-> MapInsert(vals, key, MapInsert(v, sh, new_write_from(incarnation, data))),
      ok |-> (sh \in DOMAIN v) => (v[sh].inc < incarnation)]

\* provide_base_value that keeps a base value already stored instead of replacing it
provide_base_value_keep_first(vals, key, data) ==
  LET v == or_default(vals, key)
  IN [vals |-> IF ShiftedZero \in DOMAIN v
               THEN vals
               ELSE MapInsert(vals, key, MapInsert(v, ShiftedZero, new_write_from(0, data))),
      ok |-> (ShiftedZero \in DOMAIN v) =>
               (v[ShiftedZero].inc = 0 /\ Len(v[ShiftedZero].val) = Len(data))]

\* provide_base_value whose assert leaves out the comparison of the lengths
provide_base_value_no_len_check(vals, key, data) ==
  LET v == or_default(vals, key)
  IN [vals |-> MapInsert(vals, key, MapInsert(v, ShiftedZero, new_write_from(0, data))),
      ok |-> (ShiftedZero \in DOMAIN v) => (v[ShiftedZero].inc = 0)]

\* VersionedData::provide_base_value: insert, then assert on the previous entry
provide_base_value(vals, key, data) ==
  LET v == or_default(vals, key)
  IN [vals |-> MapInsert(vals, key, MapInsert(v, ShiftedZero, new_write_from(0, data))),
      ok |-> (ShiftedZero \in DOMAIN v) =>
               (v[ShiftedZero].inc = 0 /\ Len(v[ShiftedZero].val) = Len(data))]

\* mark_estimate that finds the entry and leaves its flag as it was
mark_estimate_keep_done(vals, key, txn_idx) ==
  LET sh == ShiftedNew(txn_idx)
  IN [vals |-> vals, ok |-> key \in DOMAIN vals /\ sh \in DOMAIN vals[key]]

\* VersionedData::mark_estimate: both expect()s fail before anything is changed
mark_estimate(vals, key, txn_idx) ==
  LET sh == ShiftedNew(txn_idx)
  IN IF key \in DOMAIN vals /\ sh \in DOMAIN vals[key]
     THEN [vals |-> [vals EXCEPT ![key][sh].flag = "Estimate"], ok |-> TRUE]
     ELSE [vals |-> vals, ok |-> FALSE]

\* delete that takes a missing entry for deleted
delete_absent_ok(vals, key, txn_idx) ==
  LET sh == ShiftedNew(txn_idx)
  IN IF key \in DOMAIN vals /\ sh \in DOMAIN vals[key]
     THEN [vals |-> [vals EXCEPT ![key] = MapRemove(vals[key], sh)], ok |-> TRUE]
     ELSE [vals |-> vals, ok |-> TRUE]

\* VersionedData::delete
delete(vals, key, txn_idx) ==
  LET sh == ShiftedNew(txn_idx)
  IN IF key \in DOMAIN vals /\ sh \in DOMAIN vals[key]
     THEN [vals |-> [vals EXCEPT ![key] = MapRemove(vals[key], sh)], ok |-> TRUE]
     ELSE [vals |-> vals, ok |-> FALSE]

\* ------------------------------------------------------------------------
\* captured_reads.rs
\* ------------------------------------------------------------------------
\* enum ReadKind { Exists, Value } with the derived order Exists < Value
KindExists == 0
KindValue == 1
ReadKinds == {KindExists, KindValue}

\* enum DataRead { Versioned(Version, Arc<V>), Exists(bool) }; NoRead is Option::None
DRVersioned(version, v) == [tag |-> "Versioned", version |-> version, value |-> v, exists |-> TRUE]
DRExists(b) == [tag |-> "Exists", version |-> StorageVersion, value |-> <<>>, exists |-> b]
NoRead == [tag |-> "None", version |-> StorageVersion, value |-> <<>>, exists |-> FALSE]

\* equality of DataRead that compares the values read and not their versions
DataReadEq_by_value(a, b) ==
  /\ a.tag = b.tag
  /\ IF a.tag = "Versioned" THEN a.value = b.value ELSE a.exists = b.exists

\* equality of DataRead with the version ignored in place of the value
DataReadEq_ignore_version(a, b) ==
  /\ a.tag = b.tag
  /\ IF a.tag = "Versioned" THEN TRUE ELSE a.exists = b.exists

\* derived PartialEq of DataRead: the Arc<V> of Versioned is ignored
DataReadEq(a, b) ==
  /\ a.tag = b.tag
  /\ IF a.tag = "Versioned" THEN a.version = b.version ELSE a.exists = b.exists

get_kind(r) == IF r.tag = "Versioned" THEN KindValue ELSE KindExists

\* DataRead::downcast
downcast(r, kind) ==
  IF get_kind(r) = kind THEN r
  ELSE IF get_kind(r) > kind THEN DRExists(TRUE)
  ELSE NoRead

\* contains that compares a read of higher kind as it is, without the downcast
contains_no_downcast(self, other) ==
  IF get_kind(self) < get_kind(other) THEN "Insufficient"
  ELSE IF DataReadEq(self, other) THEN "Contains" ELSE "Inconsistent"

\* DataRead::contains
contains(self, other) ==
  IF get_kind(self) < get_kind(other) THEN "Insufficient"
  ELSE LET downcast_eq == IF get_kind(self) = get_kind(other)
                          THEN DataReadEq(self, other)
                          ELSE DataReadEq(downcast(self, get_kind(other)), other)
       IN IF downcast_eq THEN "Contains" ELSE "Inconsistent"

\* CapturedReads::new()
NewCapturedReads == [data_reads |-> EmptyMap, speculative_failure |-> FALSE, incorrect_use |-> FALSE]

\* update_entry that rejects only a strictly lower kind
update_entry_strict(data_reads, key, r) ==
  IF key \notin DOMAIN data_reads
  THEN [data_reads |-> MapInsert(data_reads, key, r), result |-> "Inserted"]
  ELSE LET existing_read == data_reads[key]
       IN IF get_kind(r) < get_kind(existing_read)
          THEN [data_reads |-> data_reads, result |-> "IncorrectUse"]
          ELSE IF contains(r, existing_read) = "Contains"
               THEN [data_reads |-> MapInsert(data_reads, key, r), result |-> "Updated"]
               ELSE [data_reads |-> data_reads, result |-> "Inconsistency"]

\* CapturedReads::update_entry
update_entry(data_reads, key, r) ==
  IF key \notin DOMAIN data_reads
  THEN [data_reads |-> MapInsert(data_reads, key, r), result |-> "Inserted"]
  ELSE LET existing_read == data_reads[key]
       IN IF get_kind(r) <= get_kind(existing_read)
          THEN [data_reads |-> data_reads, result |-> "IncorrectUse"]
          ELSE IF contains(r, existing_read) = "Contains"
               THEN [data_reads |-> MapInsert(data_reads, key, r), result |-> "Updated"]
               ELSE [data_reads |-> data_reads, result |-> "Inconsistency"]

\* CapturedReads::capture_read
capture_read(cr, key, r) ==
  LET ret == update_entry(cr.data_reads, key, r)
  IN [cr |-> [data_reads |-> ret.data_reads,
              speculative_failure |-> cr.speculative_failure \/ ret.result = "Inconsistency",
              incorrect_use |-> cr.incorrect_use \/ ret.result = "IncorrectUse"],
      ok |-> ret.result \in {"Updated", "Inserted"}]

\* get_by_kind that gives the stored read only when it is of the kind asked for
get_by_kind_same_kind_only(cr, key, kind) ==
  IF key \in DOMAIN cr.data_reads /\ get_kind(cr.data_reads[key]) = kind
  THEN cr.data_reads[key]
  ELSE NoRead

\* CapturedReads::get_by_kind
get_by_kind(cr, key, kind) ==
  IF key \in DOMAIN cr.data_reads THEN downcast(cr.data_reads[key], kind) ELSE NoRead

\* validate_data_reads that lets an Uninitialized fetch pass
validate_data_reads_uninit_ok(cr, data_map, idx_to_validate) ==
  IF cr.speculative_failure THEN FALSE
  ELSE \A k \in DOMAIN cr.data_reads :
         LET f == fetch_data(data_map, k, idx_to_validate)
         IN \/ f.tag = "Uninitialized"
            \/ /\ f.tag = "Versioned"
               /\ contains(DRVersioned(f.version, f.value), cr.data_reads[k]) = "Contains"

\* validate_data_reads that only looks at the failure flag
validate_data_reads_no_compare(cr, data_map, idx_to_validate) == ~cr.speculative_failure

\* validate_data_reads that compares the reads whatever the failure flag says
validate_data_reads_ignore_failure(cr, data_map, idx_to_validate) ==
  \A k \in DOMAIN cr.data_reads :
    LET f == fetch_data(data_map, k, idx_to_validate)
    IN /\ f.tag = "Versioned"
       /\ contains(DRVersioned(f.version, f.value), cr.data_reads[k]) = "Contains"

\* CapturedReads::validate_data_reads
validate_data_reads(cr, data_map, idx_to_validate) ==
  IF cr.speculative_failure THEN FALSE
  ELSE \A k \in DOMAIN cr.data_reads :
         LET f == fetch_data(data_map, k, idx_to_validate)
         IN /\ f.tag = "Versioned"
            /\ contains(DRVersioned(f.version, f.value), cr.data_reads[k]) = "Contains"

\* CapturedReads::mark_failure
mark_failure(cr) == [cr EXCEPT !.speculative_failure = TRUE]

\* ------------------------------------------------------------------------
\* txn_last_input_output.rs
\* ------------------------------------------------------------------------
\* ExecutionStatus<TransactionOutput>; NoOutput / NoInput are the empty ArcSwapOption
Success(write_set) == [tag |-> "Success", write_set |-> write_set]
SkipRest(write_set) == [tag |-> "SkipRest", write_set |-> write_set]
Abort == [tag |-> "Abort", write_set |-> EmptyMap]
NoOutput == [tag |-> "None", write_set |-> EmptyMap]
NoInput == [data_reads |-> EmptyMap, speculative_failure |-> FALSE, incorrect_use |-> FALSE,
            some |-> FALSE]
SomeInput(cr) == [data_reads |-> cr.data_reads, speculative_failure |-> cr.speculative_failure,
                  incorrect_use |-> cr.incorrect_use, some |-> TRUE]

\* TxnLastInputOutput::new
NewLedger == [inputs |-> [t \in Txns |-> NoInput], outputs |-> [t \in Txns |-> NoOutput]]

\* TxnLastInputOutput::record
record(ledger, txn_idx, input, output) ==
  [inputs |-> [ledger.inputs EXCEPT ![txn_idx] = SomeInput(input)],
   outputs |-> [ledger.outputs EXCEPT ![txn_idx] = output]]

\* TxnLastInputOutput::read_set
read_set(ledger, txn_idx) == ledger.inputs[txn_idx]

\* TxnLastInputOutput::txn_output
txn_output(ledger, txn_idx) == ledger.outputs[txn_idx]

\* modified_keys that yields no key whatever was recorded
modified_keys_none(ledger, txn_idx) == {}

\* TxnLastInputOutput::modified_keys: the keys of the write-set, none for Abort or an
\* empty slot
modified_keys(ledger, txn_idx) ==
  IF ledger.outputs[txn_idx].tag \in {"Success", "SkipRest"}
  THEN DOMAIN ledger.outputs[txn_idx].write_set
  ELSE {}

\* ------------------------------------------------------------------------
\* txn_last_input_output.rs with the Arc allocations: a slot (ArcSwapOption) holds Null
\* or a pointer into the heap, a snapshot returned by load_full is that pointer
\* ------------------------------------------------------------------------
NumReaders == 2
Readers == 1..NumReaders
\* the empty ArcSwapOption, Option::None
Null == 0

\* TxnLastInputOutput::new
NewArcs ==
  [inputs |-> [t \in TxnIdx |-> Null], outputs |-> [t \in TxnIdx |-> Null], heap |-> <<>>]

\* what a holder of the Arc p sees
Deref(a, p) == a.heap[p]
\* the holders of the Arc p besides the caller: the slots and the readers' snapshots
strong_count(a, held, p) ==
  Cardinality({t \in TxnIdx : a.inputs[t] = p}) + Cardinality({t \in TxnIdx : a.outputs[t] = p})
    + Cardinality({r \in Readers : held[r] = p})

\* record that fills a slot only while it is empty
record_arc_first_only(a, txn_idx, input, output) ==
  IF a.inputs[txn_idx] # Null \/ a.outputs[txn_idx] # Null
  THEN a
  ELSE LET a1 == [a EXCEPT !.heap = Append(@, SomeInput(input)),
                           !.inputs[txn_idx] = Len(a.heap) + 1]
       IN [a1 EXCEPT !.heap = Append(@, output), !.outputs[txn_idx] = Len(a1.heap) + 1]

\* record that writes through the Arcs the slots already hold
record_arc_in_place(a, txn_idx, input, output) ==
  IF a.inputs[txn_idx] = Null \/ a.outputs[txn_idx] = Null
  THEN LET a1 == [a EXCEPT !.heap = Append(@, SomeInput(input)),
                           !.inputs[txn_idx] = Len(a.heap) + 1]
       IN [a1 EXCEPT !.heap = Append(@, output), !.outputs[txn_idx] = Len(a1.heap) + 1]
  ELSE [a EXCEPT !.heap[a.inputs[txn_idx]] = SomeInput(input),
                 !.heap[a.outputs[txn_idx]] = output]

\* TxnLastInputOutput::record: each slot is stored a new Arc
record_arc(a, txn_idx, input, output) ==
  LET a1 == [a EXCEPT !.heap = Append(@, SomeInput(input)),
                      !.inputs[txn_idx] = Len(a.heap) + 1]
  IN [a1 EXCEPT !.heap = Append(@, output), !.outputs[txn_idx] = Len(a1.heap) + 1]

\* TxnLastInputOutput::read_set, txn_output: load_full of the slot
read_set_arc(a, txn_idx) == a.inputs[txn_idx]
txn_output_arc(a, txn_idx) == a.outputs[txn_idx]

\* take_output that unwraps the Arc whoever else holds it
take_output_shared(a, held, txn_idx) ==
  LET owning_ptr == a.outputs[txn_idx]
      swapped == [a EXCEPT !.outputs[txn_idx] = Null]
  IN IF owning_ptr = Null
     THEN [arcs |-> swapped, ok |-> FALSE, output |-> NoOutput]
     ELSE [arcs |-> swapped, ok |-> TRUE, output |-> Deref(a, owning_ptr)]

\* TxnLastInputOutput::take_output: swap(None), expect, then Arc::try_unwrap, expect
take_output(a, held, txn_idx) ==
  LET owning_ptr == a.outputs[txn_idx]
      swapped == [a EXCEPT !.outputs[txn_idx] = Null]
  IN IF owning_ptr = Null
     THEN [arcs |-> swapped, ok |-> FALSE, output |-> NoOutput]
     ELSE IF strong_count(swapped, held, owning_ptr) > 0
     THEN [arcs |-> swapped, ok |-> FALSE, output |-> NoOutput]
     ELSE [arcs |-> swapped, ok |-> TRUE, output |-> Deref(a, owning_ptr)]

\* TxnLastInputOutput::block_skips_rest_at_idx: load_full, expect, matches!(SkipRest)
block_skips_rest_at_idx(a, txn_idx) ==
  IF a.outputs[txn_idx] = Null
  THEN [ok |-> FALSE, result |-> FALSE]
  ELSE [ok |-> TRUE, result |-> Deref(a, a.outputs[txn_idx]).tag = "SkipRest"]

\* the thread inside update_to_skip_rest holds the output it took, or is not there
NoUpdate == [busy |-> FALSE, idx |-> 0, output |-> NoOutput]

\* TxnLastInputOutput::update_to_skip_rest, first half: take_output, then the match on
\* Success, unreachable!() otherwise
update_to_skip_rest_take(a, held, txn_idx) ==
  LET r == take_output(a, held, txn_idx)
  IN IF r.ok /\ r.output.tag # "Success"
     THEN [arcs |-> r.arcs, ok |-> FALSE, output |-> NoOutput]
     ELSE r

\* TxnLastInputOutput::update_to_skip_rest, second half: the slot is stored a new Arc of
\* SkipRest(output)
update_to_skip_rest_store(a, txn_idx, output) ==
  [a EXCEPT !.heap = Append(@, SkipRest(output.write_set)),
            !.outputs[txn_idx] = Len(a.heap) + 1]

\* ------------------------------------------------------------------------
\* Scheduler (crate::scheduler), from the design document, section 4.4
\* ------------------------------------------------------------------------
NoDep == [on |-> 0, status |-> "None"]

SchedulerNew ==
  [status |-> [t \in Txns |-> "PendingExecution"],
   incarnation |-> [t \in Txns |-> 0],
   commit_idx |-> 0,
   halted |-> FALSE,
   dep |-> [t \in Txns |-> NoDep]]

SetMin(S) == CHOOSE x \in S : \A y \in S : x <= y
WithStatus(sch, st) == {t \in Txns : sch.status[t] = st}
AllCommitted(sch) == \A t \in Txns : sch.status[t] = "Committed"
FinishedExecuting(sch, t) ==
  sch.status[t] \in {"Executed", "PendingValidation", "Validating", "Committed"}

\* schedule_validation that makes every Executed transaction PendingValidation
schedule_validation_all_executed(sch) ==
  [sch EXCEPT !.status = [t \in Txns |->
                            IF sch.status[t] = "Executed" THEN "PendingValidation"
                            ELSE sch.status[t]]]

\* an Executed transaction becomes PendingValidation once it is the lowest uncommitted
schedule_validation(sch) ==
  IF sch.commit_idx \in Txns /\ sch.status[sch.commit_idx] = "Executed"
  THEN [sch EXCEPT !.status[sch.commit_idx] = "PendingValidation"]
  ELSE sch

\* next_task that hands a transaction out without moving it to Executing / Validating
next_task_unclaimed(sch) ==
  IF sch.halted THEN [sch |-> sch, kind |-> "Done", idx |-> 0]
  ELSE IF WithStatus(sch, "PendingValidation") # {}
  THEN [sch |-> sch, kind |-> "Validation", idx |-> SetMin(WithStatus(sch, "PendingValidation"))]
  ELSE IF WithStatus(sch, "PendingExecution") # {}
  THEN [sch |-> sch, kind |-> "Execution", idx |-> SetMin(WithStatus(sch, "PendingExecution"))]
  ELSE IF AllCommitted(sch) THEN [sch |-> sch, kind |-> "Done", idx |-> 0]
  ELSE [sch |-> sch, kind |-> "NoTask", idx |-> 0]

\* next_task that answers Done as soon as nothing is pending
next_task_done_early(sch) ==
  IF sch.halted THEN [sch |-> sch, kind |-> "Done", idx |-> 0]
  ELSE IF WithStatus(sch, "PendingValidation") # {}
  THEN LET idx == SetMin(WithStatus(sch, "PendingValidation"))
       IN [sch |-> [sch EXCEPT !.status[idx] = "Validating"], kind |-> "Validation", idx |-> idx]
  ELSE IF WithStatus(sch, "PendingExecution") # {}
  THEN LET idx == SetMin(WithStatus(sch, "PendingExecution"))
       IN [sch |-> [sch EXCEPT !.status[idx] = "Executing"], kind |-> "Execution", idx |-> idx]
  ELSE [sch |-> sch, kind |-> "Done", idx |-> 0]

\* next_task that looks for a transaction to execute before one to validate
next_task_execution_first(sch) ==
  IF sch.halted THEN [sch |-> sch, kind |-> "Done", idx |-> 0]
  ELSE IF WithStatus(sch, "PendingExecution") # {}
  THEN LET idx == SetMin(WithStatus(sch, "PendingExecution"))
       IN [sch |-> [sch EXCEPT !.status[idx] = "Executing"], kind |-> "Execution", idx |-> idx]
  ELSE IF WithStatus(sch, "PendingValidation") # {}
  THEN LET idx == SetMin(WithStatus(sch, "PendingValidation"))
       IN [sch |-> [sch EXCEPT !.status[idx] = "Validating"], kind |-> "Validation", idx |-> idx]
  ELSE IF AllCommitted(sch) THEN [sch |-> sch, kind |-> "Done", idx |-> 0]
  ELSE [sch |-> sch, kind |-> "NoTask", idx |-> 0]

\* step 1: the task request
next_task(sch) ==
  IF sch.halted THEN [sch |-> sch, kind |-> "Done", idx |-> 0]
  ELSE IF WithStatus(sch, "PendingValidation") # {}
  THEN LET idx == SetMin(WithStatus(sch, "PendingValidation"))
       IN [sch |-> [sch EXCEPT !.status[idx] = "Validating"], kind |-> "Validation", idx |-> idx]
  ELSE IF WithStatus(sch, "PendingExecution") # {}
  THEN LET idx == SetMin(WithStatus(sch, "PendingExecution"))
       IN [sch |-> [sch EXCEPT !.status[idx] = "Executing"], kind |-> "Execution", idx |-> idx]
  ELSE IF AllCommitted(sch) THEN [sch |-> sch, kind |-> "Done", idx |-> 0]
  ELSE [sch |-> sch, kind |-> "NoTask", idx |-> 0]

\* finish_execution that makes idx PendingValidation whatever is still uncommitted below
finish_execution_validate_at_once(sch, idx) ==
  [sch EXCEPT !.status[idx] = "PendingValidation",
              !.dep = [t \in Txns |->
                         IF sch.dep[t].status = "Unresolved" /\ sch.dep[t].on = idx
                         THEN [sch.dep[t] EXCEPT !.status = "Resolved"]
                         ELSE sch.dep[t]]]

\* finish_execution that leaves the waiters on idx as they are
finish_execution_keep_waiters(sch, idx) ==
  schedule_validation([sch EXCEPT !.status[idx] = "Executed"])

\* step 2: Executing -> Executed (-> PendingValidation); the waiters on idx are released
finish_execution(sch, idx) ==
  schedule_validation(
    [sch EXCEPT !.status[idx] = "Executed",
                !.dep = [t \in Txns |->
                           IF sch.dep[t].status = "Unresolved" /\ sch.dep[t].on = idx
                           THEN [sch.dep[t] EXCEPT !.status = "Resolved"]
                           ELSE sch.dep[t]]])

\* finish_validation that on a failed validation also sends the transaction below back
\* to execution
finish_validation_abort_lower(sch, idx, valid) ==
  IF valid
  THEN schedule_validation([sch EXCEPT !.status[idx] = "Committed",
                                       !.commit_idx = sch.commit_idx + 1])
  ELSE [sch EXCEPT !.status = [t \in Txns |->
                                 IF t = idx \/ t = idx - 1 THEN "PendingExecution"
                                 ELSE sch.status[t]],
                   !.incarnation[idx] = sch.incarnation[idx] + 1]

\* finish_validation that sends the transaction back under the incarnation it had
finish_validation_same_incarnation(sch, idx, valid) ==
  IF valid
  THEN schedule_validation([sch EXCEPT !.status[idx] = "Committed",
                                       !.commit_idx = sch.commit_idx + 1])
  ELSE [sch EXCEPT !.status[idx] = "PendingExecution"]

\* step 3: Validating -> Committed, or back to PendingExecution with incarnation + 1
finish_validation(sch, idx, valid) ==
  IF valid
  THEN schedule_validation([sch EXCEPT !.status[idx] = "Committed",
                                       !.commit_idx = sch.commit_idx + 1])
  ELSE [sch EXCEPT !.status[idx] = "PendingExecution",
                   !.incarnation[idx] = sch.incarnation[idx] + 1]

\* step 4: Scheduler::wait_for_dependency, the DependencyResult
wait_for_dependency(sch, txn_idx, dep_idx) ==
  IF sch.halted THEN [sch |-> sch, result |-> "ExecutionHalted"]
  ELSE IF FinishedExecuting(sch, dep_idx) THEN [sch |-> sch, result |-> "Resolved"]
  ELSE [sch |-> [sch EXCEPT !.dep[txn_idx] = [on |-> dep_idx, status |-> "Unresolved"]],
        result |-> "Dependency"]

\* step 5: the global halt
halt(sch) ==
  [sch EXCEPT !.halted = TRUE,
              !.dep = [t \in Txns |->
                         IF sch.dep[t].status = "Unresolved"
                         THEN [sch.dep[t] EXCEPT !.status = "ExecutionHalted"]
                         ELSE sch.dep[t]]]

\* ------------------------------------------------------------------------
\* The execution engine and the storage backend (design document, section 6)
\* ------------------------------------------------------------------------
\* a transaction reads key rk and writes one key: wk, or the other key when it is
\* conditional and the byte it read is not zero
Programs ==
  [rk : Keys, wk : Keys, cond : {FALSE}] \cup {[rk |-> k, wk |-> k, cond |-> TRUE] : k \in Keys}
\* the pre-block value of a key
BaseValue(k) == <<(k - 1) % (MaxByte + 1)>>
Byte(v) == IF Len(v) = 0 THEN 0 ELSE v[1]
OtherKey(k) == (k % NumKeys) + 1
WrittenKey(prog, v) == IF prog.cond /\ Byte(v) # 0 THEN OtherKey(prog.wk) ELSE prog.wk
WrittenValue(v) == <<(Byte(v) + 1) % (MaxByte + 1)>>
\* the write-set the engine returns for a transaction that read v
Output(prog, v) == MapInsert(EmptyMap, WrittenKey(prog, v), WrittenValue(v))

\* ------------------------------------------------------------------------
\* lib.rs: the batch-execute entry point
\* ------------------------------------------------------------------------
\* call_data that decodes to the extrinsics of a batch
CallData(extrinsics) == [decodes |-> TRUE, extrinsics |-> extrinsics]
\* ParallelLocalCallExecutor::apply_extrinsics_parallel: the batch is decoded and
\* Ok(Vec::new()) is returned; value is what the returned bytes hold, write-set by
\* write-set
apply_extrinsics_parallel(call_data) ==
  IF ~call_data.decodes
  THEN [tag |-> "Err", value |-> <<>>]
  ELSE [tag |-> "Ok", value |-> <<>>]

\* ------------------------------------------------------------------------
\* State
\* ------------------------------------------------------------------------
VARIABLES
  values,          \* VersionedData.values: key -> versioned_map
  captured_reads,  \* a CapturedReads driven through its operations
  panicked,        \* an assert!/expect() has fired
  call,            \* the latest call: operation, arguments and result
  nops,            \* number of calls made
  provided,        \* key -> <<v>> while provide_base_value(key, v) was the latest change of key
  scheduler,       \* the Scheduler
  ledger,          \* TxnLastInputOutput
  workers,         \* worker thread -> its position in the worker loop and its locals
  batch,           \* the block: transaction index -> program
  base,            \* the storage backend: key -> pre-block value
  arcs,            \* TxnLastInputOutput with its Arc allocations: the slots point into a heap
  snapshots,       \* reader thread -> the Arc it holds, Null when none
  recorded,        \* index -> <<input, output>> of the latest record(index, ...), <<>> before
  updater          \* the thread inside update_to_skip_rest, between take_output and store

apiVars == <<captured_reads, call, nops, provided>>
engineVars == <<scheduler, ledger, workers, batch, base>>
ledgerVars == <<arcs, snapshots, recorded, updater>>
vars == <<values, panicked, apiVars, engineVars, ledgerVars>>

NoCall == [op |-> "none", key |-> 0, idx |-> 0, inc |-> 0, val |-> <<>>, read |-> NoRead,
           kind |-> KindExists, ok |-> TRUE, res |-> Uninitialized, rres |-> NoRead,
           prev |-> <<>>, protocol |-> FALSE, result |-> "None"]
StoreCall(op, key, idx, inc, val, ok, res) ==
  [NoCall EXCEPT !.op = op, !.key = key, !.idx = idx, !.inc = inc, !.val = val,
                 !.ok = ok, !.res = res]
ReadsCall(op, key, idx, r, kind, ok, rres) ==
  [NoCall EXCEPT !.op = op, !.key = key, !.idx = idx, !.read = r, !.kind = kind,
                 !.ok = ok, !.rres = rres]

\* ------------------------------------------------------------------------
\* VersionedData driven through its operations
\* ------------------------------------------------------------------------
IdleWorker == [pc |-> "idle", idx |-> 0, reads |-> NewCapturedReads, val |-> <<>>,
               dep |-> 0, valid |-> FALSE, answer |-> "None"]

InitApi ==
  /\ captured_reads = NewCapturedReads
  /\ call = NoCall
  /\ nops = 0
  /\ provided = [k \in Keys |-> <<>>]
  /\ arcs = NewArcs
  /\ snapshots = [r \in Readers |-> Null]
  /\ recorded = [t \in TxnIdx |-> <<>>]
  /\ updater = NoUpdate

InitStore ==
  /\ values = EmptyMap
  /\ panicked = FALSE
  /\ InitApi
  /\ scheduler = SchedulerNew
  /\ ledger = NewLedger
  /\ workers = [w \in Workers |-> IdleWorker]
  /\ batch = [t \in Txns |-> [rk |-> 1, wk |-> 1, cond |-> FALSE]]
  /\ base = [k \in Keys |-> BaseValue(k)]

CanCall == ~panicked /\ nops < MaxOps

Write(key, txn_idx, incarnation, data) ==
  LET r == write(values, key, txn_idx, incarnation, data)
  IN /\ CanCall
     /\ values' = r.vals
     /\ panicked' = ~r.ok
     /\ call' = StoreCall("write", key, txn_idx, incarnation, data, r.ok, Uninitialized)
     /\ nops' = nops + 1
     /\ provided' = [provided EXCEPT ![key] = <<>>]
     /\ UNCHANGED <<ledgerVars, captured_reads, engineVars>>

MarkEstimate(key, txn_idx) ==
  LET r == mark_estimate(values, key, txn_idx)
  IN /\ CanCall
     /\ values' = r.vals
     /\ panicked' = ~r.ok
     /\ call' = StoreCall("mark_estimate", key, txn_idx, 0, <<>>, r.ok, Uninitialized)
     /\ nops' = nops + 1
     /\ provided' = [provided EXCEPT ![key] = <<>>]
     /\ UNCHANGED <<ledgerVars, captured_reads, engineVars>>

Delete(key, txn_idx) ==
  LET r == delete(values, key, txn_idx)
  IN /\ CanCall
     /\ values' = r.vals
     /\ panicked' = ~r.ok
     /\ call' = StoreCall("delete", key, txn_idx, 0, <<>>, r.ok, Uninitialized)
     /\ nops' = nops + 1
     /\ provided' = [provided EXCEPT ![key] = <<>>]
     /\ UNCHANGED <<ledgerVars, captured_reads, engineVars>>

ProvideBaseValue(key, data) ==
  LET r == provide_base_value(values, key, data)
  IN /\ CanCall
     /\ values' = r.vals
     /\ panicked' = ~r.ok
     /\ call' = [StoreCall("provide_base_value", key, 0, 0, data, r.ok, Uninitialized)
                   EXCEPT !.prev = IF ShiftedZero \in DOMAIN or_default(values, key)
                                   THEN <<or_default(values, key)[ShiftedZero].val>>
                                   ELSE <<>>]
     /\ nops' = nops + 1
     /\ provided' = [provided EXCEPT ![key] = <<data>>]
     /\ UNCHANGED <<ledgerVars, captured_reads, engineVars>>

FetchData(key, txn_idx) ==
  LET r == fetch_data(values, key, txn_idx)
  IN /\ CanCall
     /\ call' = StoreCall("fetch_data", key, txn_idx, 0, <<>>, r.tag # "Panic", r)
     /\ panicked' = (r.tag = "Panic")
     /\ nops' = nops + 1
     /\ UNCHANGED <<ledgerVars, values, provided, captured_reads, engineVars>>

NextStore ==
  \/ \E key \in Keys, txn_idx \in TxnIdx, incarnation \in Incarnations, data \in StorageValues :
       Write(key, txn_idx, incarnation, data)
  \/ \E key \in Keys, txn_idx \in TxnIdx : MarkEstimate(key, txn_idx)
  \/ \E key \in Keys, txn_idx \in TxnIdx : Delete(key, txn_idx)
  \/ \E key \in Keys, data \in StorageValues : ProvideBaseValue(key, data)
  \/ \E key \in Keys, txn_idx \in 0..NumTxns : FetchData(key, txn_idx)

SpecStore == InitStore /\ [][NextStore]_vars

\* ------------------------------------------------------------------------
\* CapturedReads driven through its operations, against a changing store
\* ------------------------------------------------------------------------
CaptureRead(key, r) ==
  LET ret == capture_read(captured_reads, key, r)
  IN /\ CanCall
     /\ captured_reads' = ret.cr
     /\ call' = [ReadsCall("capture_read", key, 0, r, get_kind(r), ret.ok, NoRead)
                   EXCEPT !.prev = IF key \in DOMAIN captured_reads.data_reads
                                   THEN <<captured_reads.data_reads[key]>>
                                   ELSE <<>>]
     /\ nops' = nops + 1
     /\ UNCHANGED <<ledgerVars, values, provided, panicked, engineVars>>

GetByKind(key, kind) ==
  /\ CanCall
  /\ call' = ReadsCall("get_by_kind", key, 0, NoRead, kind, TRUE,
                       get_by_kind(captured_reads, key, kind))
  /\ nops' = nops + 1
  /\ UNCHANGED <<ledgerVars, values, provided, panicked, captured_reads, engineVars>>

ValidateDataReads(idx_to_validate) ==
  /\ CanCall
  /\ \A k \in DOMAIN captured_reads.data_reads :
       fetch_data(values, k, idx_to_validate).tag # "Panic"
  /\ call' = ReadsCall("validate_data_reads", 0, idx_to_validate, NoRead, KindExists,
                       validate_data_reads(captured_reads, values, idx_to_validate), NoRead)
  /\ nops' = nops + 1
  /\ UNCHANGED <<ledgerVars, values, provided, panicked, captured_reads, engineVars>>

MarkFailure ==
  /\ CanCall
  /\ captured_reads' = mark_failure(captured_reads)
  /\ call' = ReadsCall("mark_failure", 0, 0, NoRead, KindExists, TRUE, NoRead)
  /\ nops' = nops + 1
  /\ UNCHANGED <<ledgerVars, values, provided, panicked, engineVars>>

\* inputs of the CapturedReads runs: validation compares versions, never bytes, so one
\* value of full length is stored
ReadsData == [1..MaxLen -> {0}]
ReadsDataReads == {DRVersioned(ver, v) : ver \in Versions, v \in ReadsData} \cup {DRExists(b) : b \in BOOLEAN}

NextReads ==
  \/ \E key \in Keys, txn_idx \in TxnIdx, incarnation \in Incarnations, data \in ReadsData :
       Write(key, txn_idx, incarnation, data)
  \/ \E key \in Keys, txn_idx \in TxnIdx : MarkEstimate(key, txn_idx)
  \/ \E key \in Keys, txn_idx \in TxnIdx : Delete(key, txn_idx)
  \/ \E key \in Keys, data \in ReadsData : ProvideBaseValue(key, data)
  \/ \E key \in Keys, r \in ReadsDataReads : CaptureRead(key, r)
  \/ \E key \in Keys, kind \in ReadKinds : GetByKind(key, kind)
  \/ \E idx_to_validate \in TxnIdx : ValidateDataReads(idx_to_validate)
  \/ MarkFailure

SpecReads == InitStore /\ [][NextReads]_vars

\* ------------------------------------------------------------------------
\* TxnLastInputOutput driven through its operations by an executor, reader threads
\* that hold snapshots, and the collector of the outputs
\* ------------------------------------------------------------------------
LedgerInputs == {NewCapturedReads, mark_failure(NewCapturedReads)}
LedgerOutputs ==
  {Success(MapInsert(EmptyMap, 1, <<0>>)), Success(MapInsert(EmptyMap, 1, <<1>>)),
   SkipRest(MapInsert(EmptyMap, 1, <<0>>)), Abort}
LedgerCall(op, idx, ok, contents) ==
  [NoCall EXCEPT !.op = op, !.idx = idx, !.ok = ok, !.prev = contents]

\* the Scheduler calls take_output(idx) only after all validators of idx have finished:
\* no reader holds a snapshot of idx's output
ValidatorsFinished(a, held, idx) ==
  a.outputs[idx] # Null => \A r \in Readers : held[r] # a.outputs[idx]

Record(idx, input, output) ==
  /\ CanCall
  /\ arcs' = record_arc(arcs, idx, input, output)
  /\ call' = LedgerCall("record", idx, TRUE, <<SomeInput(input), output>>)
  /\ nops' = nops + 1
  /\ recorded' = [recorded EXCEPT ![idx] = <<SomeInput(input), output>>]
  /\ UNCHANGED <<values, panicked, captured_reads, provided, engineVars, snapshots, updater>>

\* reader r loads the read-set of idx and keeps what it got
ReadSet(r, idx) ==
  /\ CanCall
  /\ snapshots' = [snapshots EXCEPT ![r] = read_set_arc(arcs, idx)]
  /\ call' = LedgerCall("read_set", idx, TRUE, <<>>)
  /\ nops' = nops + 1
  /\ UNCHANGED <<values, panicked, captured_reads, provided, engineVars, arcs, recorded,
                 updater>>

\* reader r loads the output of idx and keeps what it got
TxnOutput(r, idx) ==
  /\ CanCall
  /\ snapshots' = [snapshots EXCEPT ![r] = txn_output_arc(arcs, idx)]
  /\ call' = LedgerCall("txn_output", idx, TRUE, <<>>)
  /\ nops' = nops + 1
  /\ UNCHANGED <<values, panicked, captured_reads, provided, engineVars, arcs, recorded,
                 updater>>

\* reader r drops the Arc it holds
DropSnapshot(r) ==
  /\ CanCall
  /\ snapshots[r] # Null
  /\ snapshots' = [snapshots EXCEPT ![r] = Null]
  /\ call' = LedgerCall("drop", 0, TRUE, <<>>)
  /\ nops' = nops + 1
  /\ UNCHANGED <<values, panicked, captured_reads, provided, engineVars, arcs, recorded,
                 updater>>

\* the collector takes the output of idx; protocol logs whether the validators of idx
\* had finished
TakeOutput(idx) ==
  LET r == take_output(arcs, snapshots, idx)
  IN /\ CanCall
     /\ arcs' = r.arcs
     /\ panicked' = ~r.ok
     /\ call' = [LedgerCall("take_output", idx, r.ok, <<r.output>>)
                   EXCEPT !.protocol = ValidatorsFinished(arcs, snapshots, idx)]
     /\ nops' = nops + 1
     /\ UNCHANGED <<values, captured_reads, provided, engineVars, snapshots, recorded,
                    updater>>

\* a thread asks whether the output of idx is SkipRest; the Arc it loads is dropped
\* when the call returns
BlockSkipsRestAtIdx(idx) ==
  LET r == block_skips_rest_at_idx(arcs, idx)
  IN /\ CanCall
     /\ panicked' = ~r.ok
     /\ call' = [LedgerCall("block_skips_rest_at_idx", idx, r.ok, <<>>)
                   EXCEPT !.res = r.result]
     /\ nops' = nops + 1
     /\ UNCHANGED <<values, captured_reads, provided, engineVars, ledgerVars>>

\* update_to_skip_rest(idx) up to the return of its take_output and the match on it
UpdateToSkipRestTake(idx) ==
  LET r == update_to_skip_rest_take(arcs, snapshots, idx)
  IN /\ CanCall
     /\ ~updater.busy
     /\ arcs' = r.arcs
     /\ panicked' = ~r.ok
     /\ updater' = IF r.ok THEN [busy |-> TRUE, idx |-> idx, output |-> r.output]
                           ELSE NoUpdate
     /\ call' = LedgerCall("update_to_skip_rest_take", idx, r.ok, <<r.output>>)
     /\ nops' = nops + 1
     /\ UNCHANGED <<values, captured_reads, provided, engineVars, snapshots, recorded>>

\* update_to_skip_rest(idx) from there: the store of SkipRest(output), and the return
UpdateToSkipRestStore ==
  /\ ~panicked
  /\ updater.busy
  /\ arcs' = update_to_skip_rest_store(arcs, updater.idx, updater.output)
  /\ updater' = NoUpdate
  /\ call' = LedgerCall("update_to_skip_rest", updater.idx, TRUE,
                        <<SkipRest(updater.output.write_set)>>)
  /\ UNCHANGED <<values, panicked, captured_reads, provided, engineVars, snapshots,
                 recorded, nops>>

NextLedger ==
  \/ \E idx \in TxnIdx, input \in LedgerInputs, output \in LedgerOutputs :
       Record(idx, input, output)
  \/ \E r \in Readers, idx \in TxnIdx : ReadSet(r, idx)
  \/ \E r \in Readers, idx \in TxnIdx : TxnOutput(r, idx)
  \/ \E r \in Readers : DropSnapshot(r)
  \/ \E idx \in TxnIdx : TakeOutput(idx)
  \/ \E idx \in TxnIdx : BlockSkipsRestAtIdx(idx)
  \/ \E idx \in TxnIdx : UpdateToSkipRestTake(idx)
  \/ UpdateToSkipRestStore

SpecLedger == InitStore /\ [][NextLedger]_vars

\* ------------------------------------------------------------------------
\* ext.rs: the read path of a transaction's view
\* ------------------------------------------------------------------------
\* ParallelState::read_top_data_by_kind up to its first return or dependency:
\* served from the captured reads, or one fetch_data and what follows from it
read_top_data_by_kind(cr, vals, key, txn_idx, target_kind) ==
  LET hit == get_by_kind(cr, key, target_kind)
      f == fetch_data(vals, key, txn_idx)
  IN IF hit.tag # "None"
     THEN [cr |-> cr, result |-> "Read", data |-> hit, dep |-> 0]
     ELSE IF f.tag = "Versioned"
     THEN LET data_read == downcast(DRVersioned(f.version, f.value), target_kind)
              c == capture_read(cr, key, data_read)
          IN IF c.ok
             THEN [cr |-> c.cr, result |-> "Read", data |-> data_read, dep |-> 0]
             ELSE [cr |-> c.cr, result |-> "HaltSpeculativeExecution", data |-> NoRead, dep |-> 0]
     ELSE IF f.tag = "Uninitialized"
     THEN [cr |-> cr, result |-> "Uninitialized", data |-> NoRead, dep |-> 0]
     ELSE [cr |-> cr, result |-> "Dependency", data |-> NoRead, dep |-> f.dep]

\* ------------------------------------------------------------------------
\* The view of one transaction during one execution attempt: its reads go through
\* read_top_data_by_kind while lower transactions change the store
\* ------------------------------------------------------------------------
\* the reading transaction, above every writer
ViewTxn == NumTxns

\* one call of read_top_data_by_kind; a call that meets a dependency is logged as such
ReadTopDataByKind(key, target_kind) ==
  LET r == read_top_data_by_kind(captured_reads, values, key, ViewTxn, target_kind)
      f == fetch_data(values, key, ViewTxn)
  IN /\ CanCall
     /\ f.tag # "Panic"
     /\ captured_reads' = r.cr
     /\ call' = [ReadsCall("read_top_data_by_kind", key, ViewTxn, NoRead, target_kind,
                           r.result = "Read", r.data)
                   EXCEPT !.res = f,
                          !.result = r.result,
                          !.prev = IF key \in DOMAIN captured_reads.data_reads
                                   THEN <<captured_reads.data_reads[key]>>
                                   ELSE <<>>]
     /\ nops' = nops + 1
     /\ UNCHANGED <<ledgerVars, values, provided, panicked, engineVars>>

NextView ==
  \/ \E key \in Keys, txn_idx \in TxnIdx, incarnation \in Incarnations, data \in ReadsData :
       Write(key, txn_idx, incarnation, data)
  \/ \E key \in Keys, txn_idx \in TxnIdx : MarkEstimate(key, txn_idx)
  \/ \E key \in Keys, txn_idx \in TxnIdx : Delete(key, txn_idx)
  \/ \E key \in Keys, data \in ReadsData : ProvideBaseValue(key, data)
  \/ \E key \in Keys, target_kind \in ReadKinds : ReadTopDataByKind(key, target_kind)

SpecView == InitStore /\ [][NextView]_vars

\* ------------------------------------------------------------------------
\* The worker loop (design document, sections 2 and 4.4)
\* ------------------------------------------------------------------------
RECURSIVE WriteAll(_, _, _, _, _)
\* the versioned writes of a write-set, key by key
WriteAll(vals, keys, write_set, txn_idx, incarnation) ==
  IF keys = {} THEN [vals |-> vals, ok |-> TRUE]
  ELSE LET k == SetMin(keys)
           r == write(vals, k, txn_idx, incarnation, write_set[k])
           rest == WriteAll(r.vals, keys \ {k}, write_set, txn_idx, incarnation)
       IN [vals |-> rest.vals, ok |-> r.ok /\ rest.ok]

RECURSIVE DeleteAll(_, _, _)
\* the entries of the keys the new write-set no longer holds are deleted
DeleteAll(vals, keys, txn_idx) ==
  IF keys = {} THEN [vals |-> vals, ok |-> TRUE]
  ELSE LET k == SetMin(keys)
           r == delete(vals, k, txn_idx)
           rest == DeleteAll(r.vals, keys \ {k}, txn_idx)
       IN [vals |-> rest.vals, ok |-> r.ok /\ rest.ok]

RECURSIVE MarkEstimateAll(_, _, _)
\* the entries of a failed incarnation become estimates
MarkEstimateAll(vals, keys, txn_idx) ==
  IF keys = {} THEN [vals |-> vals, ok |-> TRUE]
  ELSE LET k == SetMin(keys)
           r == mark_estimate(vals, k, txn_idx)
           rest == MarkEstimateAll(r.vals, keys \ {k}, txn_idx)
       IN [vals |-> rest.vals, ok |-> r.ok /\ rest.ok]

Init ==
  /\ values = EmptyMap
  /\ panicked = FALSE
  /\ InitApi
  /\ scheduler = SchedulerNew
  /\ ledger = NewLedger
  /\ workers = [w \in Workers |-> IdleWorker]
  /\ batch \in [Txns -> Programs]
  /\ base = [k \in Keys |-> BaseValue(k)]

Running(w, pc) == ~panicked /\ workers[w].pc = pc

\* the worker asks the Scheduler for a task
NextTask(w) ==
  LET r == next_task(scheduler)
  IN /\ Running(w, "idle")
     /\ scheduler' = r.sch
     /\ workers' = [workers EXCEPT ![w] =
          IF r.kind = "Execution"
          THEN [IdleWorker EXCEPT !.pc = "exec_read", !.idx = r.idx, !.answer = "Execution"]
          ELSE IF r.kind = "Validation"
          THEN [IdleWorker EXCEPT !.pc = "validate", !.idx = r.idx, !.answer = "Validation"]
          ELSE IF r.kind = "Done"
          THEN [IdleWorker EXCEPT !.pc = "done", !.answer = "Done"]
          ELSE [IdleWorker EXCEPT !.answer = "NoTask"]]
     /\ UNCHANGED <<ledgerVars, values, panicked, apiVars, ledger, batch, base>>

\* the transaction reads its key through its view
ExecRead(w) ==
  LET me == workers[w]
      r == read_top_data_by_kind(me.reads, values, batch[me.idx].rk, me.idx, KindValue)
  IN /\ Running(w, "exec_read")
     /\ fetch_data(values, batch[me.idx].rk, me.idx).tag # "Panic"
     /\ workers' = [workers EXCEPT ![w] =
          IF r.result = "Uninitialized" THEN [me EXCEPT !.pc = "exec_base"]
          ELSE IF r.result = "Dependency" THEN [me EXCEPT !.pc = "exec_dep", !.dep = r.dep]
          ELSE [me EXCEPT !.pc = "exec_write", !.reads = r.cr, !.val = r.data.value]]
     /\ UNCHANGED <<ledgerVars, values, panicked, apiVars, scheduler, ledger, batch, base>>

\* Uninitialized: the caller takes the value from the backend and provides it
ProvideBase(w) ==
  LET me == workers[w]
      key == batch[me.idx].rk
      r == provide_base_value(values, key, base[key])
  IN /\ Running(w, "exec_base")
     /\ values' = r.vals
     /\ panicked' = ~r.ok
     /\ workers' = [workers EXCEPT ![w].pc = "exec_read"]
     /\ UNCHANGED <<ledgerVars, apiVars, scheduler, ledger, batch, base>>

\* ParallelState::wait_for_dependency: the call of the Scheduler
WaitForDependency(w) ==
  LET me == workers[w]
      r == wait_for_dependency(scheduler, me.idx, me.dep)
  IN /\ Running(w, "exec_dep")
     /\ scheduler' = r.sch
     /\ workers' = [workers EXCEPT ![w] =
          IF r.result = "Resolved" THEN [me EXCEPT !.pc = "exec_read"]
          ELSE IF r.result = "ExecutionHalted" THEN IdleWorker
          ELSE [me EXCEPT !.pc = "exec_wait"]]
     /\ UNCHANGED <<ledgerVars, values, panicked, apiVars, ledger, batch, base>>

\* the wait on the condition ends and every status but Unresolved counts as resolved
WakeUp_any_status_resolved(w) ==
  LET me == workers[w]
  IN /\ Running(w, "exec_wait")
     /\ scheduler.dep[me.idx].status # "Unresolved"
     /\ scheduler' = [scheduler EXCEPT !.dep[me.idx] = NoDep]
     /\ workers' = [workers EXCEPT ![w] = [me EXCEPT !.pc = "exec_read"]]
     /\ UNCHANGED <<ledgerVars, values, panicked, apiVars, ledger, batch, base>>

\* the status is looked at once after a wake-up, whatever it is then
WakeUp_no_recheck(w) ==
  LET me == workers[w]
  IN /\ Running(w, "exec_wait")
     /\ scheduler' = [scheduler EXCEPT !.dep[me.idx] = NoDep]
     /\ workers' = [workers EXCEPT ![w] =
          IF scheduler.dep[me.idx].status = "Resolved"
          THEN [me EXCEPT !.pc = "exec_read"]
          ELSE IdleWorker]
     /\ UNCHANGED <<ledgerVars, values, panicked, apiVars, ledger, batch, base>>

\* ParallelState::wait_for_dependency: the wait on the condition ends
WakeUp(w) ==
  LET me == workers[w]
  IN /\ Running(w, "exec_wait")
     /\ scheduler.dep[me.idx].status # "Unresolved"
     /\ scheduler' = [scheduler EXCEPT !.dep[me.idx] = NoDep]
     /\ workers' = [workers EXCEPT ![w] =
          IF scheduler.dep[me.idx].status = "Resolved"
          THEN [me EXCEPT !.pc = "exec_read"]
          ELSE IdleWorker]
     /\ UNCHANGED <<ledgerVars, values, panicked, apiVars, ledger, batch, base>>

\* the engine's output is written to the store and recorded in the ledger
ApplyOutput(w) ==
  LET me == workers[w]
      write_set == Output(batch[me.idx], me.val)
      prev == modified_keys(ledger, me.idx)
      d == DeleteAll(values, prev \ DOMAIN write_set, me.idx)
      r == WriteAll(d.vals, DOMAIN write_set, write_set, me.idx, scheduler.incarnation[me.idx])
  IN /\ Running(w, "exec_write")
     /\ values' = r.vals
     /\ panicked' = ~(d.ok /\ r.ok)
     /\ ledger' = record(ledger, me.idx, me.reads, Success(write_set))
     /\ workers' = [workers EXCEPT ![w].pc = "exec_finish"]
     /\ UNCHANGED <<ledgerVars, apiVars, scheduler, batch, base>>

FinishExecution(w) ==
  /\ Running(w, "exec_finish")
  /\ scheduler' = finish_execution(scheduler, workers[w].idx)
  /\ workers' = [workers EXCEPT ![w] = IdleWorker]
  /\ UNCHANGED <<ledgerVars, values, panicked, apiVars, ledger, batch, base>>

\* the recorded read-set is validated against the store
Validate(w) ==
  LET me == workers[w]
  IN /\ Running(w, "validate")
     /\ workers' = [workers EXCEPT ![w] =
          [me EXCEPT !.pc = "val_finish",
                     !.valid = validate_data_reads(read_set(ledger, me.idx), values, me.idx)]]
     /\ UNCHANGED <<ledgerVars, values, panicked, apiVars, scheduler, ledger, batch, base>>

\* finish_validation; a failed validation marks the recorded write-set as estimates
FinishValidation(w) ==
  LET me == workers[w]
      m == IF me.valid THEN [vals |-> values, ok |-> TRUE]
           ELSE MarkEstimateAll(values, modified_keys(ledger, me.idx), me.idx)
  IN /\ Running(w, "val_finish")
     /\ values' = m.vals
     /\ panicked' = ~m.ok
     /\ scheduler' = finish_validation(scheduler, me.idx, me.valid)
     /\ workers' = [workers EXCEPT ![w] = IdleWorker]
     /\ UNCHANGED <<ledgerVars, apiVars, ledger, batch, base>>

\* the engine reports an unrecoverable condition: the worker halts the Scheduler
Halt(w) ==
  /\ Running(w, "exec_write")
  /\ scheduler' = halt(scheduler)
  /\ workers' = [workers EXCEPT ![w] = IdleWorker]
  /\ UNCHANGED <<ledgerVars, values, panicked, apiVars, ledger, batch, base>>

Next ==
  \E w \in Workers :
    \/ NextTask(w)
    \/ ExecRead(w)
    \/ ProvideBase(w)
    \/ WaitForDependency(w)
    \/ WakeUp(w)
    \/ ApplyOutput(w)
    \/ FinishExecution(w)
    \/ Validate(w)
    \/ FinishValidation(w)
    \/ Halt(w)

Spec == Init /\ [][Next]_vars

\* the steps of one worker thread
WorkerStep(w) ==
  \/ NextTask(w)
  \/ ExecRead(w)
  \/ ProvideBase(w)
  \/ WaitForDependency(w)
  \/ WakeUp(w)
  \/ ApplyOutput(w)
  \/ FinishExecution(w)
  \/ Validate(w)
  \/ FinishValidation(w)
  \/ Halt(w)

\* the blocks in which every transaction reads key 1
InitFair == Init /\ \A t \in Txns : batch[t].rk = 1

\* every worker thread that can take a step is eventually run
SpecFair == InitFair /\ [][Next]_vars /\ \A w \in Workers : WF_vars(WorkerStep(w))

\* ------------------------------------------------------------------------
\* The dependency condition (Mutex<DependencyStatus>, Condvar) step by step: pc
\* "exec_wait" is a thread about to lock the status, "exec_sleep" a thread inside
\* cvar.wait
\* ------------------------------------------------------------------------
\* Condvar::notify_all after the status changes made under the lock: every thread
\* asleep on a condition whose status is no longer Unresolved is woken
notify_all(wk, before, after) ==
  [u \in Workers |->
     IF /\ wk[u].pc = "exec_sleep"
        /\ before.dep[wk[u].idx].status = "Unresolved"
        /\ after.dep[wk[u].idx].status # "Unresolved"
     THEN [wk[u] EXCEPT !.pc = "exec_wait"]
     ELSE wk[u]]

\* the status is checked, the lock is given up, and only then the thread goes to sleep
CvarWait_check_without_lock(w) ==
  LET me == workers[w]
      st == scheduler.dep[me.idx].status
  IN \/ /\ Running(w, "exec_wait")
        /\ scheduler' = IF st = "Unresolved" THEN scheduler
                        ELSE [scheduler EXCEPT !.dep[me.idx] = NoDep]
        /\ workers' = [workers EXCEPT ![w] =
             IF st = "Unresolved" THEN [me EXCEPT !.pc = "exec_checked"]
             ELSE IF st = "Resolved" THEN [me EXCEPT !.pc = "exec_read"]
             ELSE IdleWorker]
        /\ UNCHANGED <<ledgerVars, values, panicked, apiVars, ledger, batch, base>>
     \/ /\ Running(w, "exec_checked")
        /\ workers' = [workers EXCEPT ![w].pc = "exec_sleep"]
        /\ UNCHANGED <<ledgerVars, values, panicked, apiVars, scheduler, ledger, batch, base>>

\* ParallelState::wait_for_dependency, lock.lock() and one turn of the while loop: with
\* the lock held the status is checked, and cvar.wait gives the lock up and puts the
\* thread to sleep in one step; any other status ends the loop
CvarWait(w) ==
  LET me == workers[w]
      st == scheduler.dep[me.idx].status
  IN /\ Running(w, "exec_wait")
     /\ scheduler' = IF st = "Unresolved" THEN scheduler
                     ELSE [scheduler EXCEPT !.dep[me.idx] = NoDep]
     /\ workers' = [workers EXCEPT ![w] =
          IF st = "Unresolved" THEN [me EXCEPT !.pc = "exec_sleep"]
          ELSE IF st = "Resolved" THEN [me EXCEPT !.pc = "exec_read"]
          ELSE IdleWorker]
     /\ UNCHANGED <<ledgerVars, values, panicked, apiVars, ledger, batch, base>>

\* cvar.wait returns without a notification: the thread takes the lock again
SpuriousWake(w) ==
  /\ Running(w, "exec_sleep")
  /\ workers' = [workers EXCEPT ![w].pc = "exec_wait"]
  /\ UNCHANGED <<ledgerVars, values, panicked, apiVars, scheduler, ledger, batch, base>>

\* finish_execution: the statuses change under their locks and the sleepers are woken
FinishExecutionNotify(w) ==
  /\ Running(w, "exec_finish")
  /\ scheduler' = finish_execution(scheduler, workers[w].idx)
  /\ workers' = notify_all([workers EXCEPT ![w] = IdleWorker], scheduler, scheduler')
  /\ UNCHANGED <<ledgerVars, values, panicked, apiVars, ledger, batch, base>>

\* halt: the statuses change under their locks and the sleepers are woken
HaltNotify(w) ==
  /\ Running(w, "exec_write")
  /\ scheduler' = halt(scheduler)
  /\ workers' = notify_all([workers EXCEPT ![w] = IdleWorker], scheduler, scheduler')
  /\ UNCHANGED <<ledgerVars, values, panicked, apiVars, ledger, batch, base>>

\* the steps a running thread takes by itself
WaitStep(w) ==
  \/ NextTask(w)
  \/ ExecRead(w)
  \/ ProvideBase(w)
  \/ WaitForDependency(w)
  \/ CvarWait(w)
  \/ ApplyOutput(w)
  \/ FinishExecutionNotify(w)
  \/ Validate(w)
  \/ FinishValidation(w)
  \/ HaltNotify(w)

NextWait == \E w \in Workers : WaitStep(w) \/ SpuriousWake(w)

\* the block in which every transaction reads and writes key 1; every thread that can
\* take a step is eventually run, and no spurious wake-up is ever owed
SpecWait == InitStore /\ [][NextWait]_vars /\ \A w \in Workers : WF_vars(WaitStep(w))

\* ------------------------------------------------------------------------
\* Properties of VersionedData (SpecStore)
\* ------------------------------------------------------------------------
\* the entries of key in transaction-index terms: -1 is the storage slot
HasSlot(vals, key, j) == key \in DOMAIN vals /\ (j + 1) \in DOMAIN vals[key]
SlotEntry(vals, key, j) == vals[key][j + 1]
SlotsBelow(vals, key, txn_idx) == {j \in -1..(txn_idx - 1) : HasSlot(vals, key, j)}
SlotsAtOrBelow(vals, key, txn_idx) == {j \in -1..txn_idx : HasSlot(vals, key, j)}
IsNearestBelow(vals, key, txn_idx, j) ==
  /\ j \in SlotsBelow(vals, key, txn_idx)
  /\ \A i \in SlotsBelow(vals, key, txn_idx) : i <= j
SlotVersion(vals, key, j) ==
  IF j = -1 THEN StorageVersion ELSE TxnVersion(j, SlotEntry(vals, key, j).inc)

\* C4: write(key, txn_idx, inc, v) fails exactly when an Entry exists at (key, txn_idx)
\* with incarnation >= inc; otherwise the Entry at (key, txn_idx) is (inc, v, Done), so
\* the incarnations stored by successive successful writes strictly increase.
C4_WriteIncarnationsIncrease ==
  [][(call'.op = "write" /\ nops' = nops + 1) =>
       LET key == call'.key
           j == call'.idx
           had == HasSlot(values, key, j)
       IN /\ (~call'.ok) <=> (had /\ SlotEntry(values, key, j).inc >= call'.inc)
          /\ call'.ok => /\ HasSlot(values', key, j)
                         /\ SlotEntry(values', key, j) =
                              [inc |-> call'.inc, val |-> call'.val, flag |-> "Done"]
          /\ (call'.ok /\ had) =>
               SlotEntry(values, key, j).inc < SlotEntry(values', key, j).inc]_vars

\* a write was rejected for its incarnation
C4_Witness == call.op = "write" /\ ~call.ok /\ call.inc > 0

\* C7: fetch(key, txn_idx) is Versioned exactly when the nearest Entry strictly below
\* txn_idx (storage slot lowest) exists and is Done; version and value are that
\* Entry's; the Entry of txn_idx itself or of a higher index is never returned.
C7_FetchVersionedNearestDone ==
  call.op = "fetch_data" =>
    LET key == call.key
        t == call.idx
    IN /\ (call.res.tag = "Versioned") <=>
            (\E j \in SlotsBelow(values, key, t) :
               IsNearestBelow(values, key, t, j) /\ SlotEntry(values, key, j).flag = "Done")
       /\ (call.res.tag = "Versioned") =>
            \E j \in SlotsBelow(values, key, t) :
              /\ IsNearestBelow(values, key, t, j)
              /\ call.res.version = SlotVersion(values, key, j)
              /\ call.res.value = SlotEntry(values, key, j).val
       /\ (call.res.tag = "Versioned" /\ ~call.res.version.base) => call.res.version.idx < t

\* a fetch returned a transaction's write although the reader's own slot is written too
C7_Witness ==
  /\ call.op = "fetch_data"
  /\ call.res.tag = "Versioned"
  /\ ~call.res.version.base
  /\ HasSlot(values, call.key, call.idx)

\* C8: fetch(key, txn_idx) is Dependency(d) exactly when the nearest Entry below txn_idx
\* is Estimate, d being its transaction index; an Estimate Entry's value is never
\* returned and fetch does not step over an Estimate to a lower Done Entry.
C8_FetchDependencyNearestEstimate ==
  call.op = "fetch_data" =>
    LET key == call.key
        t == call.idx
    IN /\ (call.res.tag = "Dependency") <=>
            (\E j \in SlotsBelow(values, key, t) :
               IsNearestBelow(values, key, t, j) /\ SlotEntry(values, key, j).flag = "Estimate")
       /\ (call.res.tag = "Dependency") =>
            /\ IsNearestBelow(values, key, t, call.res.dep)
            /\ SlotEntry(values, key, call.res.dep).flag = "Estimate"
       /\ (\E j \in SlotsBelow(values, key, t) :
             IsNearestBelow(values, key, t, j) /\ SlotEntry(values, key, j).flag = "Estimate")
            => call.res.tag # "Versioned"

\* a fetch returned a dependency although a Done Entry lies below the Estimate
C8_Witness ==
  /\ call.op = "fetch_data"
  /\ call.res.tag = "Dependency"
  /\ \E j \in SlotsBelow(values, call.key, call.res.dep) :
       SlotEntry(values, call.key, j).flag = "Done"

\* C9 as stated: fetch(key, txn_idx) is Uninitialized iff no Entry exists at or below
\* txn_idx.
C9_UninitializedIffNothingAtOrBelow ==
  call.op = "fetch_data" =>
    ((call.res.tag = "Uninitialized") <=> (SlotsAtOrBelow(values, call.key, call.idx) = {}))

\* C9 amended: fetch(key, txn_idx) is Uninitialized iff no Entry (storage slot or
\* transaction write) exists strictly below txn_idx; the Entry of txn_idx itself does
\* not count.
C9_UninitializedIffNothingBelow ==
  call.op = "fetch_data" =>
    ((call.res.tag = "Uninitialized") <=> (SlotsBelow(values, call.key, call.idx) = {}))

\* a fetch was Uninitialized on a key that holds the reader's own write
C9_Witness ==
  /\ call.op = "fetch_data"
  /\ call.res.tag = "Uninitialized"
  /\ HasSlot(values, call.key, call.idx)

\* C10 as stated: after provide_base_value(k, v) with no write, mark_estimate or delete
\* on k since, fetch(k, idx) is Versioned(BaseState, v) for every idx > 0.
C10_BaseValueFetched ==
  (call.op = "fetch_data" /\ call.idx > 0 /\ provided[call.key] # <<>>) =>
    call.res = Versioned(StorageVersion, provided[call.key][1])

\* C10 amended: ... fetch(k, idx) is Versioned(BaseState, v) for every idx > 0 below
\* which k holds no transaction's Entry.
C10_BaseValueFetchedIfNoWriteBelow ==
  (/\ call.op = "fetch_data" /\ call.idx > 0 /\ provided[call.key] # <<>>
   /\ \A j \in 0..(call.idx - 1) : ~HasSlot(values, call.key, j)) =>
    call.res = Versioned(StorageVersion, provided[call.key][1])

\* the base value was fetched above transaction 0 on a key written at a higher index
C10_Witness ==
  /\ call.op = "fetch_data" /\ call.idx > 0 /\ provided[call.key] # <<>>
  /\ call.res = Versioned(StorageVersion, provided[call.key][1])
  /\ \E j \in call.idx..(NumTxns - 1) : HasSlot(values, call.key, j)

\* a provide_base_value call on a key that holds a base-state Entry
ProvideAgain ==
  /\ call'.op = "provide_base_value" /\ nops' = nops + 1
  /\ HasSlot(values, call'.key, -1)
\* every fetch of key gives what it gave before the step
FetchesUnchanged(key) ==
  \A idx \in 0..NumTxns : fetch_data(values', key, idx) = fetch_data(values, key, idx)

\* C14 as stated: once a base-state Entry for key exists, a further
\* provide_base_value(key, v') that does not fail leaves the stored base value and
\* every fetch result for key unchanged.
C14_BaseValueKept ==
  [][(ProvideAgain /\ call'.ok) =>
       /\ SlotEntry(values', call'.key, -1) = SlotEntry(values, call'.key, -1)
       /\ FetchesUnchanged(call'.key)]_vars

\* C14 amended: a further provide_base_value(key, v') fails unless v' has the length
\* of the stored base value; when it does not fail the base-state Entry holds v' and
\* nothing else changes, so the store and every fetch result for key are unchanged
\* when v' is the stored value.
C14_BaseValueReplacedBySameLength ==
  [][ProvideAgain =>
       LET key == call'.key
           stored == SlotEntry(values, key, -1)
       IN /\ call'.ok <=> (stored.inc = 0 /\ Len(stored.val) = Len(call'.val))
          /\ call'.ok =>
               /\ SlotEntry(values', key, -1) = [stored EXCEPT !.val = call'.val]
               /\ \A k \in DOMAIN values : \A sh \in DOMAIN values[k] :
                    (k # key \/ sh # ShiftedZero) =>
                      /\ k \in DOMAIN values' /\ sh \in DOMAIN values'[k]
                      /\ values'[k][sh] = values[k][sh]
               /\ (call'.val = stored.val) => (values' = values /\ FetchesUnchanged(key))]_vars

\* a second provide_base_value went through with a value other than the stored one
C14_Witness ==
  /\ call.op = "provide_base_value"
  /\ call.ok
  /\ call.prev # <<>>
  /\ call.prev[1] # call.val
  /\ SlotEntry(values, call.key, -1).val = call.val

\* ------------------------------------------------------------------------
\* Properties of CapturedReads (SpecReads)
\* ------------------------------------------------------------------------
\* a captured read still matches a fresh fetch
StillMatches(r, f) ==
  /\ f.tag = "Versioned"
  /\ r.tag = "Versioned" => r.version = f.version
  /\ r.tag = "Exists" => r.exists

AllStillMatch(cr, vals, idx) ==
  \A k \in DOMAIN cr.data_reads : StillMatches(cr.data_reads[k], fetch_data(vals, k, idx))

\* C5 as stated: validate is true iff every captured read still matches a fresh fetch.
C5_ValidateIffAllMatch ==
  call.op = "validate_data_reads" =>
    (call.ok <=> AllStillMatch(captured_reads, values, call.idx))

\* C5 amended: with speculative_failure unset, validate is true iff every captured
\* read still matches a fresh fetch (Dependency and Uninitialized not matching); with
\* speculative_failure set it is false.
C5_ValidateIffAllMatchUnlessFailed ==
  call.op = "validate_data_reads" =>
    (call.ok <=> (~captured_reads.speculative_failure
                    /\ AllStillMatch(captured_reads, values, call.idx)))

\* a validation failed on a captured Versioned read with no speculative failure
C5_Witness ==
  /\ call.op = "validate_data_reads"
  /\ ~call.ok
  /\ ~captured_reads.speculative_failure
  /\ \E k \in DOMAIN captured_reads.data_reads :
       /\ captured_reads.data_reads[k].tag = "Versioned"
       /\ fetch_data(values, k, call.idx).tag \in {"Dependency", "Uninitialized"}

\* C6: capture_read(key, read) with kind(read) <= the kind captured for key fails as
\* incorrect use: incorrect_use is set, speculative_failure is not touched and the
\* captured reads stay as they were.
C6_CaptureLowerKindIncorrectUse ==
  [][(/\ call'.op = "capture_read" /\ nops' = nops + 1
      /\ call'.key \in DOMAIN captured_reads.data_reads
      /\ call'.kind <= get_kind(captured_reads.data_reads[call'.key])) =>
       /\ ~call'.ok
       /\ captured_reads'.incorrect_use
       /\ captured_reads'.speculative_failure = captured_reads.speculative_failure
       /\ captured_reads'.data_reads = captured_reads.data_reads]_vars

\* a capture_read was rejected as incorrect use of a Value read over a Value read
C6_Witness ==
  /\ call.op = "capture_read"
  /\ ~call.ok
  /\ call.kind = KindValue
  /\ captured_reads.incorrect_use
  /\ ~captured_reads.speculative_failure

\* C15: capture_read(key, read) with a read of strictly higher kind than the stored
\* one replaces the stored read and succeeds when the new read downcast to the old
\* kind equals the old read; otherwise it fails, sets speculative_failure, leaves
\* incorrect_use as it was and keeps the old read.
C15_CaptureHigherKind ==
  [][(/\ call'.op = "capture_read" /\ nops' = nops + 1
      /\ call'.key \in DOMAIN captured_reads.data_reads
      /\ call'.kind > get_kind(captured_reads.data_reads[call'.key])) =>
       LET key == call'.key
           stored == captured_reads.data_reads[key]
           \* a Value read seen as an Exists read says that the key exists
           as_old_kind == DRExists(TRUE)
       IN IF stored.exists = as_old_kind.exists
          THEN /\ call'.ok
               /\ captured_reads'.data_reads =
                    [captured_reads.data_reads EXCEPT ![key] = call'.read]
               /\ captured_reads'.speculative_failure = captured_reads.speculative_failure
               /\ captured_reads'.incorrect_use = captured_reads.incorrect_use
          ELSE /\ ~call'.ok
               /\ captured_reads'.speculative_failure
               /\ captured_reads'.incorrect_use = captured_reads.incorrect_use
               /\ captured_reads'.data_reads = captured_reads.data_reads]_vars

\* a Value read was refused over a captured Exists(false): speculative failure, no
\* incorrect use, and Exists(false) is still the captured read
C15_Witness ==
  /\ call.op = "capture_read"
  /\ call.kind = KindValue
  /\ ~call.ok
  /\ call.prev = <<DRExists(FALSE)>>
  /\ captured_reads.speculative_failure
  /\ ~captured_reads.incorrect_use
  /\ captured_reads.data_reads[call.key] = DRExists(FALSE)

\* ------------------------------------------------------------------------
\* Properties of TxnLastInputOutput (SpecLedger)
\* ------------------------------------------------------------------------
\* C16: what a reader sees through a snapshot it got from read_set(idx) or
\* txn_output(idx) is the same after any later call, record(idx, ...) included, while
\* the slots of idx hold the input and output of that record for whoever loads next.
C16_SnapshotsSurviveRecord ==
  [][/\ \A r \in Readers :
          (snapshots[r] # Null /\ snapshots'[r] = snapshots[r]) =>
            Deref(arcs', snapshots'[r]) = Deref(arcs, snapshots[r])
     /\ (call'.op = "record" /\ nops' = nops + 1) =>
          /\ snapshots' = snapshots
          /\ Deref(arcs', read_set_arc(arcs', call'.idx)) = call'.prev[1]
          /\ Deref(arcs', txn_output_arc(arcs', call'.idx)) = call'.prev[2]]_vars

\* after a second record on the only recorded index a reader still holds a snapshot
\* of the first execution attempt, other than what the slots now give
C16_Witness ==
  /\ call.op = "record"
  /\ \A t \in TxnIdx : t # call.idx => arcs.inputs[t] = Null
  /\ \E r \in Readers :
       /\ snapshots[r] # Null
       /\ snapshots[r] \notin {arcs.inputs[call.idx], arcs.outputs[call.idx]}
       /\ Deref(arcs, snapshots[r]) \notin {Deref(arcs, arcs.inputs[call.idx]),
                                             Deref(arcs, arcs.outputs[call.idx])}

RECURSIVE SeqState(_)
\* the key -> value state after the first n transactions ran one at a time, in order
SeqState(n) ==
  IF n = 0 THEN base
  ELSE LET st == SeqState(n - 1)
           write_set == Output(batch[n - 1], st[batch[n - 1].rk])
       IN [k \in Keys |-> IF k \in DOMAIN write_set THEN write_set[k] ELSE st[k]]
SeqOutput(t) == Output(batch[t], SeqState(t)[batch[t].rk])

\* the value the store leaves for key: the write of the highest transaction, else the
\* pre-block value
FinalValue(key) ==
  IF \E j \in Txns : HasSlot(values, key, j)
  THEN SlotEntry(values, key, SetMax({j \in Txns : HasSlot(values, key, j)})).val
  ELSE base[key]

Finished == \A w \in Workers : workers[w].pc = "done"

HoldsExecution(w, t) ==
  /\ workers[w].pc \in {"exec_read", "exec_base", "exec_dep", "exec_wait", "exec_write",
                        "exec_finish"}
  /\ workers[w].idx = t
HoldsValidation(w, t) == workers[w].pc \in {"validate", "val_finish"} /\ workers[w].idx = t

\* C2: no two workers hold the execution task of one transaction, no two its
\* validation task, and no task of a transaction is handed out while another worker
\* still holds one for it.
C2_SingleOwnerTasks ==
  \A t \in Txns : \A w1, w2 \in Workers :
    (w1 # w2) =>
      ~((HoldsExecution(w1, t) \/ HoldsValidation(w1, t))
          /\ (HoldsExecution(w2, t) \/ HoldsValidation(w2, t)))

\* one worker validates a transaction while another executes a higher one
C2_Witness ==
  \E w1, w2 \in Workers : \E t1, t2 \in Txns :
    w1 # w2 /\ t1 < t2 /\ HoldsValidation(w1, t1) /\ HoldsExecution(w2, t2)

\* C3: a task request is answered done exactly when every transaction is Committed or
\* the engine is halted.
C3_DoneIffCommittedOrHalted ==
  [][\A w \in Workers :
       (workers[w].pc = "idle" /\ workers'[w] # workers[w]) =>
         ((workers'[w].pc = "done") <=>
            (scheduler.halted \/ \A t \in Txns : scheduler.status[t] = "Committed"))]_vars

\* without halt, one worker was told it is done after another was told to wait
C3_Witness ==
  /\ ~scheduler.halted
  /\ \E w1, w2 \in Workers : workers[w1].pc = "done" /\ workers[w2].answer = "NoTask"

\* the step in which worker w's read_top_data_by_kind returns or meets a dependency
ReadStep(w) == workers[w].pc = "exec_read" /\ workers'[w].pc # "exec_read"
\* worker w is blocked on the condition of its dependency
Blocked(w) ==
  workers[w].pc = "exec_wait" /\ scheduler.dep[workers[w].idx].status = "Unresolved"

\* C11: once the Entry of an invalidated transaction j is an estimate, a read of its
\* key by a higher transaction whose nearest lower Entry it is meets Dependency(j) and
\* never takes the stale value; a worker is blocked on j only until j's next
\* incarnation has written and finished, it is eventually released, and a read after
\* that write takes the new value under the new incarnation.
C11_EstimateBlocksUntilRewritten ==
  /\ [][\A w \in Workers :
          ReadStep(w) =>
            LET me == workers[w]
                key == batch[me.idx].rk
                S == SlotsBelow(values, key, me.idx)
            IN (S # {} /\ SetMax(S) >= 0) =>
                 LET j == SetMax(S)
                     e == SlotEntry(values, key, j)
                 IN IF e.flag = "Estimate" \/ e.inc < scheduler.incarnation[j]
                    THEN workers'[w].pc = "exec_dep" /\ workers'[w].dep = j
                    ELSE /\ workers'[w].pc = "exec_write"
                         /\ workers'[w].val = e.val
                         /\ workers'[w].reads.data_reads[key] =
                              DRVersioned(TxnVersion(j, e.inc), e.val)]_vars
  /\ [](\A w \in Workers :
          Blocked(w) =>
            ~FinishedExecuting(scheduler, scheduler.dep[workers[w].idx].on))
  /\ \A w \in Workers : (workers[w].pc = "exec_wait") ~> (workers[w].pc # "exec_wait")

\* a worker that met the estimate of transaction 1 or higher has gone on and has read
\* the value written by that transaction's second incarnation
C11_Witness ==
  \E w \in Workers :
    LET me == workers[w]
        key == batch[me.idx].rk
    IN /\ me.pc = "exec_write"
       /\ me.answer = "Execution"
       /\ me.dep >= 1
       /\ key \in DOMAIN me.reads.data_reads
       /\ me.reads.data_reads[key].version = TxnVersion(me.dep, 1)
       /\ ~scheduler.halted

\* what a read of key by transaction t finds in the store now
FreshRead(key, t) ==
  LET f == fetch_data(values, key, t)
  IN IF f.tag = "Versioned" THEN DRVersioned(f.version, f.value) ELSE NoRead
\* the recorded read-set of t holds a read that the store no longer gives
StaleReadSet(t) ==
  \E k \in DOMAIN read_set(ledger, t).data_reads :
    read_set(ledger, t).data_reads[k].version # FreshRead(k, t).version
      \/ FreshRead(k, t).tag = "None"

C13_AllWriteSetsOrFallback ==
  LET r == apply_extrinsics_parallel(CallData(batch))
  IN \/ r.tag = "Err"
     \/ /\ r.tag = "Ok"
        /\ Len(r.value) = BlockSize
        /\ \A t \in Txns : r.value[t + 1] = SeqOutput(t)

\* C18: once halted the engine stays halted; from then on a task request is answered
\* done and hands out no task; the halt turns every unresolved dependency into
\* ExecutionHalted, no thread stays blocked, and a thread that waited or asks to wait
\* comes back with the halted outcome and gives its execution up.
C18_HaltIsFinal ==
  [][/\ scheduler.halted => scheduler'.halted
     /\ scheduler'.halted =>
          \A t \in Txns : scheduler'.dep[t].status # "Unresolved"
     /\ (~scheduler.halted /\ scheduler'.halted) =>
          \A t \in Txns :
            scheduler.dep[t].status = "Unresolved" =>
              scheduler'.dep[t] = [on |-> scheduler.dep[t].on, status |-> "ExecutionHalted"]
     /\ \A w \in Workers :
          /\ (scheduler.halted /\ workers[w].pc = "idle" /\ workers'[w] # workers[w]) =>
               workers'[w].pc = "done"
          /\ (scheduler.halted /\ workers[w].pc = "exec_dep" /\ workers'[w] # workers[w]) =>
               workers'[w].pc = "idle"
          /\ (workers[w].pc = "exec_wait" /\ workers'[w] # workers[w]) =>
               IF scheduler.dep[workers[w].idx].status = "ExecutionHalted"
               THEN scheduler.halted /\ workers'[w].pc = "idle"
               ELSE workers'[w].pc = "exec_read"]_vars

\* the engine is halted and a thread that was blocked on a dependency has been released
\* with the halted outcome
C18_Witness ==
  /\ scheduler.halted
  /\ \E w \in Workers :
       /\ workers[w].pc = "exec_wait"
       /\ scheduler.dep[workers[w].idx].status = "ExecutionHalted"

\* the edges of the per-transaction state machine
Edges ==
  {<<"PendingExecution", "Executing">>, <<"Executing", "Executed">>,
   <<"Executed", "PendingValidation">>, <<"PendingValidation", "Validating">>,
   <<"Validating", "Committed">>, <<"Validating", "PendingExecution">>}
\* one edge, or the two edges that finish_execution takes through Executed
AlongEdges(from, to) ==
  \/ <<from, to>> \in Edges
  \/ from = "Executing" /\ to = "PendingValidation"

\* C19: the state of a transaction changes only along the edges PendingExecution ->
\* Executing -> Executed -> PendingValidation -> Validating -> Committed and the
\* back-edge Validating -> PendingExecution; a Committed transaction stays Committed
\* and is never handed out again for execution or validation.
C19_OnlyAlongEdges ==
  [][\A t \in Txns :
       /\ scheduler'.status[t] # scheduler.status[t] =>
            AlongEdges(scheduler.status[t], scheduler'.status[t])
       /\ scheduler.status[t] = "Committed" =>
            /\ scheduler'.status[t] = "Committed"
            /\ \A w \in Workers :
                 ~(HoldsExecution(w, t)' \/ HoldsValidation(w, t)')]_vars

\* a transaction is Committed after it went round the back-edge, while a higher one
\* is being executed
C19_Witness ==
  \E t, u \in Txns :
    /\ scheduler.status[t] = "Committed"
    /\ scheduler.incarnation[t] = 1
    /\ scheduler.status[u] = "Executing"

\* the step in which worker w's task request is answered
TaskRequest(w) == workers[w].pc = "idle" /\ workers'[w] # workers[w]
\* what the request answers when the engine is not halted
AnswerByPreference(w) ==
  LET pv == WithStatus(scheduler, "PendingValidation")
      pe == WithStatus(scheduler, "PendingExecution")
  IN IF pv # {}
     THEN workers'[w].pc = "validate" /\ workers'[w].idx = SetMin(pv)
     ELSE IF pe # {}
     THEN workers'[w].pc = "exec_read" /\ workers'[w].idx = SetMin(pe)
     ELSE IF \A t \in Txns : scheduler.status[t] = "Committed"
     THEN workers'[w].pc = "done"
     ELSE workers'[w].pc = "idle" /\ workers'[w].answer = "NoTask"

RecordedKeys(t) == DOMAIN txn_output(ledger, t).write_set
\* t was invalidated and its next incarnation has not written yet
AwaitsRewrite(t) ==
  /\ scheduler.incarnation[t] > 0
  /\ \/ scheduler.status[t] = "PendingExecution"
     \/ /\ scheduler.status[t] = "Executing"
        /\ \E w \in Workers :
             /\ workers[w].idx = t
             /\ workers[w].pc \in {"exec_read", "exec_base", "exec_dep", "exec_wait", "exec_write"}
\* every fetch of key by a transaction above t whose nearest lower Entry is t's
\* returns Dependency(t)
HigherReadersDepend(vals, key, t) ==
  \A j \in Txns :
    (j > t /\ IsNearestBelow(vals, key, j, t)) => fetch_data(vals, key, j) = Dependency(t)

\* C21: finish_validation(idx, FALSE) turns the Entry at (key, idx) of every key of
\* idx's recorded write-set into an Estimate with its incarnation and value kept, and
\* moves idx from Validating to PendingExecution; until idx's next incarnation writes,
\* a fetch by a higher reader whose nearest lower Entry is idx's returns
\* Dependency(idx). finish_validation(idx, TRUE) moves idx to Committed and changes no
\* Entry.
C21_InvalidMarksEstimates ==
  [][\A t \in Txns :
       /\ \A w \in Workers :
            (workers[w].pc = "val_finish" /\ workers[w].idx = t /\ workers'[w].pc # "val_finish") =>
              /\ scheduler.status[t] = "Validating"
              /\ IF workers[w].valid
                 THEN scheduler'.status[t] = "Committed" /\ values' = values
                 ELSE /\ scheduler'.status[t] = "PendingExecution"
                      /\ RecordedKeys(t) # {}
                      /\ \A k \in RecordedKeys(t) :
                           /\ HasSlot(values', k, t)
                           /\ SlotEntry(values', k, t) =
                                [SlotEntry(values, k, t) EXCEPT !.flag = "Estimate"]
                           /\ HigherReadersDepend(values', k, t)
                      /\ \A k \in Keys : \A j \in -1..(BlockSize - 1) :
                           (j # t \/ k \notin RecordedKeys(t)) =>
                             /\ HasSlot(values', k, j) = HasSlot(values, k, j)
                             /\ HasSlot(values, k, j) => SlotEntry(values', k, j) = SlotEntry(values, k, j)
       /\ AwaitsRewrite(t)' =>
            \A k \in Keys :
              HasSlot(values', k, t) =>
                /\ SlotEntry(values', k, t).flag = "Estimate"
                /\ HigherReadersDepend(values', k, t)]_vars

\* transaction 1 was invalidated and waits for its next execution, and transaction 2
\* has met the estimate it left
C21_Witness ==
  /\ scheduler.status[1] = "PendingExecution"
  /\ scheduler.incarnation[1] = 1
  /\ \E k \in Keys : HasSlot(values, k, 1) /\ SlotEntry(values, k, 1).flag = "Estimate"
  /\ \E w \in Workers : workers[w].idx = 2 /\ workers[w].pc = "exec_dep" /\ workers[w].dep = 1

\* the step in which worker w calls finish_execution for transaction t
FinishesExecution(w, t) ==
  workers[w].pc = "exec_finish" /\ workers[w].idx = t /\ workers'[w].pc # "exec_finish"
\* transaction j has been through a validation
Validated(j) ==
  scheduler.status[j] \in {"Validating", "Committed"} \/ scheduler.incarnation[j] > 0
\* the store holds for t exactly the write-set recorded for t, every Entry Done
WriteSetInStore(t) ==
  \A k \in Keys :
    /\ HasSlot(values, k, t) <=> k \in RecordedKeys(t)
    /\ HasSlot(values, k, t) =>
         /\ SlotEntry(values, k, t).flag = "Done"
         /\ SlotEntry(values, k, t).val = txn_output(ledger, t).write_set[k]

C23_IncarnationCountsFailedValidations ==
  /\ \A t \in Txns : scheduler.incarnation[t] = 0
  /\ [][\A t \in Txns :
          IF scheduler.status[t] = "Validating" /\ scheduler'.status[t] = "PendingExecution"
          THEN scheduler'.incarnation[t] = scheduler.incarnation[t] + 1
          ELSE scheduler'.incarnation[t] = scheduler.incarnation[t]]_vars

\* transaction 1 is executed again under incarnation 1 after transaction 0 committed
\* under incarnation 0
C23_Witness ==
  /\ scheduler.incarnation[0] = 0
  /\ scheduler.status[0] = "Committed"
  /\ scheduler.incarnation[1] = 1
  /\ scheduler.status[1] = "Executing"

\* the lowest transaction that is not Committed, BlockSize when there is none
LowestUncommitted(sch) ==
  IF AllCommitted(sch) THEN BlockSize
  ELSE SetMin({t \in Txns : sch.status[t] # "Committed"})

Returns(w, result) ==
  /\ workers[w].pc \in {"exec_dep", "exec_wait"}
  /\ workers'[w].pc = IF result THEN "exec_read" ELSE "idle"

\* C25: wait_for_dependency does not return while the status of its dependency is
\* Unresolved; it returns TRUE exactly when the Scheduler answered Resolved or the
\* status it waited on became Resolved, and then dep_idx has finished executing; it
\* returns FALSE exactly when the answer or the status is ExecutionHalted, and then the
\* engine is halted. A thread is left blocked only while dep_idx has not finished and
\* no halt was signalled.
C25_WaitReturnsOutcome ==
  [][\A w \in Workers :
       LET me == workers[w]
           st == scheduler.dep[me.idx].status
       IN /\ (me.pc = "exec_wait" /\ workers'[w] # me) =>
               /\ st # "Unresolved"
               /\ Returns(w, TRUE) <=> st = "Resolved"
               /\ Returns(w, FALSE) <=> st = "ExecutionHalted"
               /\ st = "Resolved" => FinishedExecuting(scheduler, scheduler.dep[me.idx].on)
               /\ st = "ExecutionHalted" => scheduler.halted
          /\ (me.pc = "exec_dep" /\ workers'[w] # me) =>
               /\ Returns(w, TRUE) <=> (~scheduler.halted /\ FinishedExecuting(scheduler, me.dep))
               /\ Returns(w, FALSE) <=> scheduler.halted
               /\ (~Returns(w, TRUE) /\ ~Returns(w, FALSE)) =>
                    /\ workers'[w].pc = "exec_wait"
                    /\ scheduler'.dep[me.idx] = [on |-> me.dep, status |-> "Unresolved"]
          /\ Blocked(w)' =>
               /\ ~scheduler'.halted
               /\ ~FinishedExecuting(scheduler', scheduler'.dep[workers'[w].idx].on)]_vars

\* a thread that blocked on transaction 1 finds the status Resolved after transaction
\* 1 finished its second execution
C25_Witness ==
  \E w \in Workers :
    /\ workers[w].pc = "exec_wait"
    /\ scheduler.dep[workers[w].idx] = [on |-> 1, status |-> "Resolved"]
    /\ scheduler.incarnation[1] = 1
    /\ FinishedExecuting(scheduler, 1)

\* worker w is inside wait_for_dependency with the condition of its dependency
Waiting(w) == workers[w].pc \in {"exec_wait", "exec_sleep"}

\* C26: a thread is asleep on its condition only while the status is Unresolved, so no
\* notification comes before the sleep it is meant for; and a thread that waits on
\* dep_idx returns once dep_idx has finished executing or the engine is halted.
C26_NoMissedWakeup ==
  /\ [][\A w \in Workers :
          workers'[w].pc = "exec_sleep" =>
            /\ scheduler'.dep[workers'[w].idx].status = "Unresolved"
            /\ ~scheduler'.halted
            /\ ~FinishedExecuting(scheduler', scheduler'.dep[workers'[w].idx].on)]_vars
  /\ \A w \in Workers :
       (Waiting(w) /\ (scheduler.halted \/ FinishedExecuting(scheduler, workers[w].dep)))
         ~> ~Waiting(w)

\* the status became Resolved after the thread was handed the condition and before it
\* locked the status: no notification will come for it
C26_Witness ==
  \E w \in Workers :
    /\ workers[w].pc = "exec_wait"
    /\ scheduler.dep[workers[w].idx].status = "Resolved"
    /\ \A u \in Workers : workers[u].pc # "exec_sleep"
    /\ workers[w].answer = "Execution"

C28_FailureFlagIsSticky ==
  [][/\ captured_reads.speculative_failure => captured_reads'.speculative_failure
     /\ (~captured_reads.speculative_failure /\ captured_reads'.speculative_failure) =>
          \/ call'.op = "mark_failure"
          \/ /\ call'.op = "capture_read"
             /\ ~call'.ok
             /\ update_entry(captured_reads.data_reads, call'.key, call'.read).result =
                  "Inconsistency"
     /\ call'.op = "mark_failure" => captured_reads'.speculative_failure
     /\ captured_reads'.speculative_failure =>
          /\ \A idx \in TxnIdx : ~validate_data_reads(captured_reads', values', idx)
          /\ call'.op = "validate_data_reads" => ~call'.ok]_vars

\* a validation came back FALSE with the flag set although the captured reads, one of
\* them a Versioned read, all match a fresh fetch
C28_Witness ==
  /\ call.op = "validate_data_reads"
  /\ ~call.ok
  /\ captured_reads.speculative_failure
  /\ AllStillMatch(captured_reads, values, call.idx)
  /\ \E k \in DOMAIN captured_reads.data_reads : captured_reads.data_reads[k].tag = "Versioned"

\* the step in which read_top_data_by_kind(key, kind) is called on the view
ReadCall(key, kind) ==
  call'.op = "read_top_data_by_kind" /\ call'.key = key /\ call'.kind = kind /\ nops' = nops + 1

\* C29: get_by_kind gives the stored read downcast to the kind exactly when a read is
\* stored with a kind >= the kind asked for; a read of a key whose captured read has
\* such a kind returns that downcast and leaves the captured reads alone, whatever
\* the store holds by then; a read at a higher kind, or of a key not captured, is
\* answered from what fetch_data gives.
C29_ReadsServedFromCapture ==
  [][\A key \in Keys : \A kind \in ReadKinds :
       LET stored == captured_reads.data_reads
           has == key \in DOMAIN stored
           f == fetch_data(values, key, ViewTxn)
       IN /\ get_by_kind(captured_reads, key, kind) =
               IF has /\ get_kind(stored[key]) >= kind
               THEN (IF get_kind(stored[key]) = kind THEN stored[key] ELSE DRExists(TRUE))
               ELSE NoRead
          /\ ReadCall(key, kind) =>
               IF has /\ get_kind(stored[key]) >= kind
               THEN /\ call'.result = "Read"
                    /\ call'.rres = downcast(stored[key], kind)
                    /\ captured_reads' = captured_reads
               ELSE CASE f.tag = "Versioned" ->
                           /\ call'.result = "Read"
                           /\ call'.rres = downcast(DRVersioned(f.version, f.value), kind)
                           /\ captured_reads'.data_reads[key] = call'.rres
                           /\ ~captured_reads'.speculative_failure
                      [] f.tag = "Uninitialized" ->
                           call'.result = "Uninitialized" /\ captured_reads' = captured_reads
                      [] OTHER ->
                           call'.result = "Dependency" /\ captured_reads' = captured_reads]_vars

\* a read was served from the captured Versioned read although the store by now gives
\* something else for the key
C29_Witness ==
  /\ call.op = "read_top_data_by_kind"
  /\ call.result = "Read"
  /\ call.prev # <<>>
  /\ call.prev[1].tag = "Versioned"
  /\ call.rres = downcast(call.prev[1], call.kind)
  /\ \/ call.res.tag # "Versioned"
     \/ call.res.version # call.prev[1].version

\* ------------------------------------------------------------------------
\* Further properties of VersionedData (SpecStore)
\* ------------------------------------------------------------------------
\* the step is a call of op on (key, idx)
StoreStep(op, key, idx) ==
  call'.op = op /\ call'.key = key /\ call'.idx = idx /\ nops' = nops + 1
\* every Entry but the one at (key, idx) is as it was
OtherEntriesKept(key, idx) ==
  \A k \in Keys : \A j \in -1..(NumTxns - 1) :
    (k # key \/ j # idx) =>
      /\ HasSlot(values', k, j) = HasSlot(values, k, j)
      /\ HasSlot(values, k, j) => SlotEntry(values', k, j) = SlotEntry(values, k, j)

\* C30: mark_estimate(key, txn_idx) and delete(key, txn_idx) fail exactly when there
\* is no Entry at (key, txn_idx), and then the store is as it was. A successful
\* mark_estimate changes the flag of that Entry to Estimate and nothing else; a
\* successful delete removes that Entry and nothing else, and a fetch above txn_idx
\* whose nearest lower Entry it was gives what the next lower Entry gives.
C30_MarkEstimateDeleteOneEntry ==
  [][\A key \in Keys : \A idx \in TxnIdx :
       /\ (StoreStep("mark_estimate", key, idx) \/ StoreStep("delete", key, idx)) =>
            /\ call'.ok <=> HasSlot(values, key, idx)
            /\ panicked' <=> ~call'.ok
            /\ ~call'.ok => values' = values
            /\ OtherEntriesKept(key, idx)
       /\ (StoreStep("mark_estimate", key, idx) /\ call'.ok) =>
            /\ HasSlot(values', key, idx)
            /\ SlotEntry(values', key, idx) =
                 [inc |-> SlotEntry(values, key, idx).inc,
                  val |-> SlotEntry(values, key, idx).val,
                  flag |-> "Estimate"]
       /\ (StoreStep("delete", key, idx) /\ call'.ok) =>
            /\ ~HasSlot(values', key, idx)
            /\ \A j \in 0..NumTxns :
                 fetch_data(values', key, j) =
                   IF j > idx /\ IsNearestBelow(values, key, j, idx)
                   THEN fetch_data(values, key, idx)
                   ELSE fetch_data(values, key, j)]_vars

\* transaction 1's Entry was deleted and a fetch above it now gives the value written
\* by transaction 0
C30_Witness ==
  /\ call.op = "delete"
  /\ call.ok
  /\ call.idx = 1
  /\ HasSlot(values, call.key, 0)
  /\ fetch_data(values, call.key, NumTxns) =
       Versioned(SlotVersion(values, call.key, 0), SlotEntry(values, call.key, 0).val)

\* ------------------------------------------------------------------------
\* Properties of the ledger slots under update_to_skip_rest (SpecLedger)
\* ------------------------------------------------------------------------
\* what read_set(idx) and txn_output(idx) return: the contents behind the slot, None
\* when the slot is empty
ReadSetOf(a, idx) ==
  IF read_set_arc(a, idx) = Null THEN NoInput ELSE Deref(a, read_set_arc(a, idx))
TxnOutputOf(a, idx) ==
  IF txn_output_arc(a, idx) = Null THEN NoOutput ELSE Deref(a, txn_output_arc(a, idx))

\* the step is a call op(idx) of the ledger
LedgerStep(op, idx) == call'.op = op /\ call'.idx = idx /\ nops' = nops + 1
\* the step is the store that ends update_to_skip_rest(idx)
SkipRestStored(idx) == updater.busy /\ ~updater'.busy /\ updater.idx = idx /\ ~panicked'

\* C31 as stated: before the first record(idx, ...) both read_set(idx) and
\* txn_output(idx) return none, and from then on always the input and the output of
\* the most recent record(idx, ...).
C31_SlotsHoldLatestRecord ==
  \A idx \in TxnIdx :
    IF recorded[idx] = <<>>
    THEN read_set_arc(arcs, idx) = Null /\ txn_output_arc(arcs, idx) = Null
    ELSE /\ read_set_arc(arcs, idx) # Null
         /\ ReadSetOf(arcs, idx) = recorded[idx][1]
         /\ txn_output_arc(arcs, idx) # Null
         /\ TxnOutputOf(arcs, idx) = recorded[idx][2]

\* txn_output(idx) returns the output of the most recent record(idx, ...)
HoldsRecordedOutput(a, rec, idx) ==
  /\ rec[idx] # <<>>
  /\ txn_output_arc(a, idx) # Null
  /\ TxnOutputOf(a, idx) = rec[idx][2]

\* C31: read_set(idx) and txn_output(idx) return none until the first record(idx, ...);
\* from then on read_set(idx) returns the input of the most recent record(idx, ...),
\* and txn_output(idx) returns its output for as long as no take_output(idx) and no
\* update_to_skip_rest(idx) has removed or replaced it; record(idx, ...) overwrites
\* both slots of idx whatever they held and changes no slot of another index.
C31_SlotsHoldLatestRecordUntilTaken ==
  [][\A idx \in TxnIdx :
       /\ IF recorded'[idx] = <<>>
          THEN read_set_arc(arcs', idx) = Null /\ txn_output_arc(arcs', idx) = Null
          ELSE /\ read_set_arc(arcs', idx) # Null
               /\ ReadSetOf(arcs', idx) = recorded'[idx][1]
       /\ LedgerStep("record", idx) =>
            /\ ReadSetOf(arcs', idx) = call'.prev[1]
            /\ TxnOutputOf(arcs', idx) = call'.prev[2]
            /\ read_set_arc(arcs', idx) \notin {Null, read_set_arc(arcs, idx)}
            /\ txn_output_arc(arcs', idx) \notin {Null, txn_output_arc(arcs, idx)}
            /\ \A t \in TxnIdx \ {idx} :
                 /\ read_set_arc(arcs', t) = read_set_arc(arcs, t)
                 /\ txn_output_arc(arcs', t) = txn_output_arc(arcs, t)
                 /\ ReadSetOf(arcs', t) = ReadSetOf(arcs, t)
                 /\ TxnOutputOf(arcs', t) = TxnOutputOf(arcs, t)
       /\ ( /\ HoldsRecordedOutput(arcs, recorded, idx)
            /\ ~LedgerStep("take_output", idx)
            /\ ~LedgerStep("update_to_skip_rest_take", idx)
            /\ ~SkipRestStored(idx) )
            => HoldsRecordedOutput(arcs', recorded', idx)]_vars

\* a second record(idx, ...) with another input and another output has replaced what
\* the first one stored, while another index holds its own record untouched
C31_Witness ==
  /\ call.op = "record"
  /\ \E r \in Readers :
       /\ snapshots[r] # Null
       /\ "tag" \in DOMAIN Deref(arcs, snapshots[r])
       /\ Deref(arcs, snapshots[r]) # TxnOutputOf(arcs, call.idx)
  /\ HoldsRecordedOutput(arcs, recorded, call.idx)
  /\ \E t \in TxnIdx \ {call.idx} : HoldsRecordedOutput(arcs, recorded, t)

\* C32: update_to_skip_rest(idx) on a slot whose output is Success(ws) does not fail
\* and leaves the slot holding SkipRest(ws), the same write-set, after which
\* block_skips_rest_at_idx(idx) returns true; on a slot whose output is SkipRest or
\* Abort it fails fatally.
C32_UpdateToSkipRestConvertsSuccess ==
  [][\A idx \in TxnIdx :
       LET p == txn_output_arc(arcs, idx)
       IN /\ (LedgerStep("update_to_skip_rest_take", idx) /\ p # Null) =>
               /\ Deref(arcs, p).tag = "Success" =>
                    /\ call'.ok
                    /\ ~panicked'
                    /\ updater' = [busy |-> TRUE, idx |-> idx, output |-> Deref(arcs, p)]
               /\ Deref(arcs, p).tag \in {"SkipRest", "Abort"} =>
                    /\ ~call'.ok
                    /\ panicked'
          /\ SkipRestStored(idx) =>
               /\ TxnOutputOf(arcs', idx) = SkipRest(updater.output.write_set)
               /\ block_skips_rest_at_idx(arcs', idx) = [ok |-> TRUE, result |-> TRUE]]_vars

\* a thread is inside update_to_skip_rest(idx), past its take_output
Converting(u, idx) == u.busy /\ u.idx = idx

\* C33: while update_to_skip_rest(idx) runs, between the first record(idx, ...) and the
\* final take_output(idx), the output slot of idx is never empty: txn_output(idx) does
\* not return none and a concurrent block_skips_rest_at_idx(idx) does not fail for
\* lack of a recorded output.
C33_OutputSlotNeverSeenEmpty ==
  [][\A idx \in TxnIdx :
       /\ Converting(updater', idx) => TxnOutputOf(arcs', idx) # NoOutput
       /\ (Converting(updater, idx) /\ LedgerStep("block_skips_rest_at_idx", idx)) =>
            /\ call'.ok
            /\ ~panicked']_vars

\* ------------------------------------------------------------------------
\* Properties of the store after a failed write (SpecStore)
\* ------------------------------------------------------------------------
\* C34: a write(key, txn_idx, inc, v) that fails the incarnation check leaves the store
\* as it was: the Entry at (key, txn_idx) keeps its incarnation, value and flag, and
\* every fetch gives afterwards what it gave before.
C34_FailedWriteKeepsStore ==
  [][\A key \in Keys, txn_idx \in TxnIdx :
       (StoreStep("write", key, txn_idx) /\ ~call'.ok) =>
         /\ HasSlot(values, key, txn_idx)
         /\ SlotEntry(values, key, txn_idx).inc >= call'.inc
         /\ HasSlot(values', key, txn_idx)
         /\ SlotEntry(values', key, txn_idx) = SlotEntry(values, key, txn_idx)
         /\ values' = values
         /\ \A k \in Keys, t \in 0..NumTxns :
              fetch_data(values', k, t) = fetch_data(values, k, t)]_vars

\* ------------------------------------------------------------------------
\* Properties of dependencies (Spec)
\* ------------------------------------------------------------------------
\* transaction t waits for transaction d: its worker met Dependency(d) and is about to
\* call, or is inside, wait_for_dependency(t, d)
WaitsFor(t, d) ==
  \/ \E w \in Workers :
       workers[w].idx = t /\ workers[w].pc \in {"exec_dep", "exec_wait"} /\ workers[w].dep = d
  \/ scheduler.dep[t] = [on |-> d, status |-> "Unresolved"]

\* C35: a fetch(key, t) that returns Dependency(d) names a transaction d < t whose
\* Entry on key is flagged Estimate; the Entry of the base state is never flagged
\* Estimate and never the dependency (no fetch ends in the panic on a storage-version
\* estimate); every transaction that waits, waits for a lower-indexed one, and no set
\* of transactions waits in a circle.
C35_DependencyOnLowerEstimate ==
  /\ \A k \in Keys, t \in 0..BlockSize :
       LET f == fetch_data(values, k, t)
       IN /\ f.tag # "Panic"
          /\ f.tag = "Dependency" =>
               /\ f.dep \in Txns
               /\ f.dep < t
               /\ HasSlot(values, k, f.dep)
               /\ SlotEntry(values, k, f.dep).flag = "Estimate"
  /\ \A k \in Keys : HasSlot(values, k, -1) => SlotEntry(values, k, -1).flag = "Done"
  /\ \A t, d \in Txns : WaitsFor(t, d) => d < t
  /\ \A C \in (SUBSET Txns) \ {{}} : \E t \in C : \A d \in C : ~WaitsFor(t, d)

\* a worker is blocked on transaction 1, whose Entry on the key it read is an Estimate
\* above a base Entry, and a fetch of that key at its index returns Dependency(1)
C35_Witness ==
  \E w \in Workers :
    LET me == workers[w]
        key == batch[me.idx].rk
    IN /\ Blocked(w)
       /\ WaitsFor(me.idx, 1)
       /\ fetch_data(values, key, me.idx) = Dependency(1)
       /\ HasSlot(values, key, -1)

\* ------------------------------------------------------------------------
\* Properties of the comparison made by validation (SpecReads)
\* ------------------------------------------------------------------------
\* the comparison validate_data_reads makes for one captured read r and the fresh
\* fetch f of its key
ReadValidates(r, f) ==
  /\ f.tag = "Versioned"
  /\ contains(DRVersioned(f.version, f.value), r) = "Contains"

\* C36: validation compares a captured read with the fresh fetch by version and kind
\* and not by value: a captured Value read of version (j, i) validates exactly when
\* the fetch returns a Versioned entry of version (j, i), whatever the two values are,
\* so not when j has written the same value again under another incarnation; a
\* captured Exists(true) validates exactly when the fetch returns a Versioned entry;
\* a captured Exists(false) never validates. validate_data_reads, with no speculative
\* failure recorded, is TRUE exactly when every captured read validates in this way.
C36_ValidationByVersionNotValue ==
  /\ \A k \in DOMAIN captured_reads.data_reads : \A idx \in TxnIdx :
       LET r == captured_reads.data_reads[k]
           f == fetch_data(values, k, idx)
       IN /\ r.tag = "Versioned" =>
               /\ ReadValidates(r, f) <=> (f.tag = "Versioned" /\ f.version = r.version)
               /\ f.tag = "Versioned" =>
                    \A v \in StorageValues :
                      contains(DRVersioned(f.version, v), r) =
                        contains(DRVersioned(f.version, f.value), r)
          /\ r = DRExists(TRUE) => (ReadValidates(r, f) <=> f.tag = "Versioned")
          /\ r = DRExists(FALSE) => ~ReadValidates(r, f)
  /\ (call.op = "validate_data_reads" /\ ~captured_reads.speculative_failure) =>
       (call.ok <=>
          \A k \in DOMAIN captured_reads.data_reads :
            LET r == captured_reads.data_reads[k]
                f == fetch_data(values, k, call.idx)
            IN /\ f.tag = "Versioned"
               /\ r.tag = "Versioned" => f.version = r.version
               /\ r.tag = "Exists" => r.exists)

\* a validation failed on nothing but a captured Value read of version (0, 0) whose
\* value is the one the store now holds for transaction 0 under incarnation 1
C36_Witness ==
  /\ call.op = "validate_data_reads"
  /\ ~call.ok
  /\ ~captured_reads.speculative_failure
  /\ \E k \in Keys :
       LET f == fetch_data(values, k, call.idx)
       IN /\ DOMAIN captured_reads.data_reads = {k}
          /\ captured_reads.data_reads[k].tag = "Versioned"
          /\ captured_reads.data_reads[k].version = TxnVersion(0, 0)
          /\ f.tag = "Versioned"
          /\ f.version = TxnVersion(0, 1)
          /\ f.value = captured_reads.data_reads[k].value

\* ------------------------------------------------------------------------
\* Properties of the write-set held in the store (Spec)
\* ------------------------------------------------------------------------
\* C37: while the current incarnation of transaction idx has finished executing (idx
\* is Executed, PendingValidation, Validating or Committed) the store holds an Entry
\* at (key, idx) exactly for the keys of the write-set recorded for idx, each flagged
\* Done, with idx's current incarnation and the recorded value: no Estimate of idx and
\* no Entry of a key its re-execution no longer writes is left.
C37_StoreHoldsCurrentWriteSet ==
  \A t \in Txns :
    FinishedExecuting(scheduler, t) =>
      /\ txn_output(ledger, t).tag = "Success"
      /\ \A k \in Keys :
           /\ HasSlot(values, k, t) <=> k \in RecordedKeys(t)
           /\ HasSlot(values, k, t) =>
                SlotEntry(values, k, t) =
                  [inc |-> scheduler.incarnation[t],
                   val |-> txn_output(ledger, t).write_set[k],
                   flag |-> "Done"]

\* the second incarnation of the conditional transaction 1 is being validated; it read
\* another byte than the first, wrote the other key, and the Entry of the key the
\* first incarnation wrote is gone
C37_Witness ==
  LET key == batch[1].rk
  IN /\ batch[1].cond
     /\ scheduler.incarnation[1] = 1
     /\ scheduler.status[1] = "Validating"
     /\ Byte(SeqState(1)[key]) # Byte(base[key])
     /\ RecordedKeys(1) = {WrittenKey(batch[1], SeqState(1)[key])}
     /\ ~HasSlot(values, WrittenKey(batch[1], base[key]), 1)

====
